---- MODULE Spec2Model ----
(***************************************************************************)
(* Replicheck: the duplicate matchers, the similarity score and the block *)
(* extractor.                                                              *)
(*                                                                         *)
(*   Strategy A  replicheck/detector.py  DuplicateDetector.find_duplicates *)
(*   Strategy B  replicheck/tools/Duplication/Duplication.py               *)
(*               DuplicateDetector.find_duplicates                         *)
(*   score       replicheck/utils.py  calculate_similarity                 *)
(*   report      replicheck/reporter.py                                    *)
(*               Reporter._convert_legacy_duplicates_to_group              *)
(*   extractor   replicheck/parser.py  CodeParser                          *)
(*   file loop   replicheck/runner.py, main.py  parse_code_files           *)
(*   tokenizers  replicheck/parser.py  _tokenize_python,                   *)
(*               _tokenize_tree_sitter_node                                *)
(*   run         replicheck/runner.py  ReplicheckRunner.run, main.py main  *)
(*                                                                         *)
(* A float that is the quotient of two small integers (a score, a          *)
(* threshold) is named by the reduced fraction <<numerator, denominator>>  *)
(* it is nearest to.  The size-ratio test of Strategy A is computed in     *)
(* binary floating point, as the code computes it: the quotient and the    *)
(* threshold are rounded to doubles and 1 - min_similarity is the double   *)
(* subtraction.  The thresholds of Spec are dyadic (0, 1/2, 3/4, 1);       *)
(* SpecDecimal runs Strategy A at 0.8 and 2/3.                             *)
(*                                                                         *)
(* The detector is constructed where it is used: FindDuplicatesA and       *)
(* FindDuplicatesB draw min_size (and min_similarity) when they run.  A     *)
(* block's start_line is its position in the list handed to the matcher,   *)
(* so a location names one block of the input.                             *)
(***************************************************************************)
EXTENDS Integers, Sequences, FiniteSets, TLC

\* ------------------------------------------------------------------ bounds
MaxBlocks == 3        \* blocks in the input list
MaxTotalTokens == 4   \* tokens in the input list, over all its blocks
MaxNearTokens == 5    \* tokens in one block of the near-identical blocks
MaxMinSize == 2       \* min_size is drawn from 1..MaxMinSize
MaxSimTokens == 2     \* tokens in one argument of calculate_similarity
MaxNodes == 2         \* definitions (captured nodes) in the file under test
MaxNodeTokens == 1    \* tokens harvested from one node's subtree
MaxFiles == 2         \* files in the list handed to parse_code_files
MaxThreads == 2       \* callers that run parse_file at the same time
MaxCalls == 3         \* calls made on one CodeParser

Tokens == {"a", "b"}
SimTokens == {"a", "b", "c"}
Files == {"f1.py", "f2.py"}
MinSimilarities == {<<0, 1>>, <<1, 2>>, <<3, 4>>, <<1, 1>>}

SeqsUpTo(S, n) == UNION {[1..k -> S] : k \in 0..n}
SimTokenLists == SeqsUpTo(SimTokens, MaxSimTokens)
ArgumentKinds == {"list", "str"}

VARIABLES
    code_blocks,       \* the caller's list of code blocks (a Python list)
    min_size,          \* min_size of the detector that ran ("none" before)
    min_similarity,    \* min_similarity of the Strategy A detector that ran,
                       \* a fraction; Strategy B stores but never reads its own
    phase,             \* "input", "matchedA", "matchedB", "reported", "sim"
    duplicates,        \* what Strategy A returned
    duplicate_groups,  \* what Strategy B returned
    legacy_groups,     \* what _convert_legacy_duplicates_to_group returned
    tokens1, tokens2,  \* the arguments of calculate_similarity
    similarity,        \* what calculate_similarity returned ("none" before)
    raised,            \* the exception find_duplicates let escape ("none"
                       \* when it returned)
    kind1, kind2,      \* the type of each argument: "list", or "str" for a
                       \* bare string, held in tokens1/tokens2 as the sequence
                       \* of its characters (what set() iterates over)
    file,              \* the file under test: its path, whether it can be
                       \* read, and what its text holds
    provider,          \* the Grammar Provider: what get_parser and
                       \* get_language do for each language name
    parsers,           \* CodeParser._parsers, the parser cache
    get_parser_calls,  \* how often get_parser was called, per language name
    results,           \* what the calls made on the CodeParser gave, in order
    pc,                \* per concurrent caller: the line of _get_parser it
                       \* is about to run ("idle" before, "done" after)
    local_parser,      \* per concurrent caller: its local variable parser
    returned_parser,   \* per concurrent caller: what _get_parser returned
    files,             \* the file list handed to parse_code_files
    similarity_calls,  \* the pairs of blocks Strategy A called
                       \* calculate_similarity on, in call order
    root_exists,       \* whether the root path of the run exists
    output_format,     \* the output_format argument of the run
    failing_step,      \* the collaborator of the run that raises ("none"
                       \* when all of them return)
    exit_status,       \* what run / main returned ("none" before)
    call_log,          \* the calls the run made, in order
    tasks,             \* the tasks analyze_bugs_and_safety handed to its
                       \* thread pool so far: "running" or "done" per
                       \* language group submitted
    find_flake8_unused, \* the name find_flake8_unused in replicheck.utils:
                       \* "missing" as the source stands (importing it raises
                       \* ImportError), "defined" when the module is given one
    syntax_tree,       \* the node handed to a tokenizer
    source_text,       \* the file's text handed to the tree-sitter tokenizer
    emitted            \* the token list a tokenizer returned ("none" before)

simkinds == <<kind1, kind2>>

thread_vars == <<pc, local_parser, returned_parser>>

trace_vars == <<similarity_calls>>

run_vars == <<root_exists, output_format, failing_step, exit_status, call_log,
             tasks, find_flake8_unused>>

token_vars == <<syntax_tree, source_text, emitted>>

\* no run under way
RunIdle ==
    /\ root_exists = TRUE
    /\ output_format = "text"
    /\ failing_step = "none"
    /\ exit_status = "none"
    /\ call_log = <<>>
    /\ tasks = <<>>
    /\ find_flake8_unused = "missing"

\* no tokenizer at work
TokenizerIdle ==
    /\ syntax_tree = "none"
    /\ source_text = "none"
    /\ emitted = "none"

parser_vars == <<file, provider, parsers, get_parser_calls, results,
                 thread_vars>>

vars == <<code_blocks, min_size, min_similarity, phase, duplicates,
          duplicate_groups, legacy_groups, tokens1, tokens2, similarity,
          simkinds, raised, parser_vars, files, trace_vars, run_vars, token_vars>>

\* a dict without entries
EmptyDict == [k \in {} |-> k]

Threads == 1..MaxThreads

\* no caller is inside parse_file
ThreadsIdle ==
    /\ pc = [t \in Threads |-> "idle"]
    /\ local_parser = [t \in Threads |-> [unbound |-> TRUE]]
    /\ returned_parser = [t \in Threads |-> [unbound |-> TRUE]]

\* no CodeParser at work: nothing parsed, nothing cached
ParserIdle ==
    /\ file = "none"
    /\ provider = "none"
    /\ parsers = EmptyDict
    /\ get_parser_calls = EmptyDict
    /\ results = <<>>
    /\ ThreadsIdle
    /\ files = <<>>
    /\ RunIdle
    /\ TokenizerIdle

\* ------------------------------------------------------------ arithmetic
Abs(x) == IF x < 0 THEN -x ELSE x
Max(x, y) == IF x >= y THEN x ELSE y

RECURSIVE GCD(_, _)
GCD(x, y) == IF y = 0 THEN x ELSE GCD(y, x % y)

\* the float n / d (d > 0), named by the reduced fraction it is nearest to
Quotient(n, d) == <<n \div GCD(n, d), d \div GCD(n, d)>>
FloatZero == <<0, 1>>
FloatOne == <<1, 1>>
\* comparisons of two floats that are each the quotient of two small integers
\* (a score, a threshold): two different such quotients round to different
\* doubles in the same order
FloatGeq(p, q) == p[1] * q[2] >= q[1] * p[2]
FloatGt(p, q) == p[1] * q[2] > q[1] * p[2]
FloatLt(p, q) == p[1] * q[2] < q[1] * p[2]

\* ------------------------------------------- binary floating point
\* A double in [0, 1] is held as its binary expansion [int, frac]: the value
\* int + frac[1]/2 + frac[2]/4 + ...  A double has Precision significant
\* bits; a result with more is rounded to the nearest double, a tie to the
\* one whose last bit is 0.
Precision == 53

\* the first n bits of the binary expansion of r / d (0 <= r < d) appended
\* to bits, and the remainder left over
RECURSIVE expansion(_, _, _, _)
expansion(r, d, n, bits) ==
    IF n = 0 THEN [bits |-> bits, rest |-> r]
    ELSE IF 2 * r >= d THEN expansion(2 * r - d, d, n - 1, Append(bits, 1))
    ELSE expansion(2 * r, d, n - 1, Append(bits, 0))

\* the number of zeros the expansion of r / d (0 < r < d) starts with
RECURSIVE leading_zeros(_, _)
leading_zeros(r, d) == IF 2 * r >= d THEN 0 ELSE 1 + leading_zeros(2 * r, d)

\* x plus one unit in the last place of its expansion
add_ulp(x) ==
    LET zeros == {k \in 1..Len(x.frac) : x.frac[k] = 0}
    IN  IF zeros = {}
        THEN [int |-> x.int + 1, frac |-> [k \in 1..Len(x.frac) |-> 0]]
        ELSE LET last == CHOOSE k \in zeros : \A l \in zeros : l <= k
             IN  [int |-> x.int,
                  frac |-> [k \in 1..Len(x.frac) |->
                               IF k < last THEN x.frac[k]
                               ELSE IF k = last THEN 1 ELSE 0]]

\* the double a float literal or the division of two ints gives: the double
\* nearest to the fraction p (0 <= p <= 1)
double(p) ==
    IF p[1] = 0 THEN [int |-> 0, frac |-> <<>>]
    ELSE IF p[1] = p[2] THEN [int |-> 1, frac |-> <<>>]
    ELSE LET n == leading_zeros(p[1], p[2]) + Precision
         IN  \* e is the expansion cut after Precision significant bits
             LET e == expansion(p[1], p[2], n, <<>>)
             IN  IF 2 * e.rest > p[2] \/ (2 * e.rest = p[2] /\ e.bits[n] = 1)
                 THEN add_ulp([int |-> 0, frac |-> e.bits])
                 ELSE [int |-> 0, frac |-> e.bits]

\* the exact value x (0 <= x <= 1) rounded to a double
round_to_double(x) ==
    LET ones == {k \in 1..Len(x.frac) : x.frac[k] = 1}
        first == IF x.int = 1 \/ ones = {} THEN 0
                 ELSE CHOOSE k \in ones : \A l \in ones : k <= l
        kept == first + Precision - 1
    IN  IF Len(x.frac) <= kept THEN x
        ELSE LET cut == [int |-> x.int, frac |-> SubSeq(x.frac, 1, kept)]
                 half == x.frac[kept + 1] = 1
                 more == \E k \in (kept + 2)..Len(x.frac) : x.frac[k] = 1
             IN  IF half /\ (more \/ x.frac[kept] = 1) THEN add_ulp(cut)
                 ELSE cut

\* 1 - x for a double x in [0, 1]
OneMinus(x) ==
    IF \A k \in 1..Len(x.frac) : x.frac[k] = 0
    THEN [int |-> 1 - x.int, frac |-> <<>>]
    ELSE round_to_double(
             add_ulp([int |-> 0,
                      frac |-> [k \in 1..Len(x.frac) |-> 1 - x.frac[k]]]))

\* x > y for two doubles
double_bit(x, k) == IF k <= Len(x.frac) THEN x.frac[k] ELSE 0
double_gt(x, y) ==
    \/ x.int > y.int
    \/ /\ x.int = y.int
       /\ \E k \in 1..Max(Len(x.frac), Len(y.frac)) :
             /\ double_bit(x, k) > double_bit(y, k)
             /\ \A l \in 1..(k - 1) : double_bit(x, l) = double_bit(y, l)

\* The quotients of two block sizes, and the thresholds, that the matcher
\* meets, with the double of each and the double of 1 - it, computed once.
SmallQuotients ==
    UNION {{Quotient(n, d) : n \in 0..d} :
               d \in 1..(MaxTotalTokens + MaxNearTokens)}
Doubles == [p \in SmallQuotients |-> double(p)]
OneMinusDoubles == [p \in SmallQuotients |-> OneMinus(Doubles[p])]

Range(s) == {s[k] : k \in 1..Len(s)}

\* ------------------------------------------------- calculate_similarity
\* the score taken over the lists' lengths instead of the sets' sizes
calculate_similarity_lengths(t1, t2) ==
    LET intersection == Cardinality(Range(t1) \cap Range(t2))
        union == Len(t1) + Len(t2) - intersection
    IN  IF union > 0 THEN Quotient(intersection, union) ELSE FloatZero

\* the score with 1.0 for two empty lists
calculate_similarity_emptyone(t1, t2) ==
    IF Cardinality(Range(t1) \cup Range(t2)) > 0
    THEN Quotient(Cardinality(Range(t1) \cap Range(t2)),
                  Cardinality(Range(t1) \cup Range(t2)))
    ELSE FloatOne

calculate_similarity(t1, t2) ==
    LET set1 == Range(t1)
        set2 == Range(t2)
        intersection == Cardinality(set1 \cap set2)
        union == Cardinality(set1 \cup set2)
    IN  IF union > 0 THEN Quotient(intersection, union) ELSE FloatZero

\* ------------------------------------------------------------ code blocks
Location(f, line, n) == [file |-> f, start_line |-> line, end_line |-> line + n]
Block(t, f, line) == [tokens |-> t, location |-> Location(f, line, Len(t))]
size_of(block) == Len(block.tokens)

\* a dict (a record) has the key k; d[k] raises KeyError when it has not
has_key(d, k) == k \in DOMAIN d
KeyError == [exception |-> "KeyError"]
ZeroDivisionError == [exception |-> "ZeroDivisionError"]
is_exception(v) == "exception" \in DOMAIN v
\* a list of appended results in which an element may stand for the exception
\* raised at that point: the exception of the call, or "none"
exception_in(appended) ==
    LET at == {k \in 1..Len(appended) : is_exception(appended[k])}
    IN  IF at = {} THEN "none"
        ELSE appended[CHOOSE k \in at : \A l \in at : k <= l].exception
\* block.get("tokens", [])
get_tokens(block) == IF has_key(block, "tokens") THEN block.tokens ELSE <<>>

\* ---------------------------------- Strategy A: detector.find_duplicates
\* code_blocks.sort(key=lambda x: len(x["tokens"])): a stable ascending sort
RECURSIVE sort_from(_, _)
sort_from(blocks, s) ==
    IF \A k \in 1..Len(blocks) : size_of(blocks[k]) < s
    THEN <<>>
    ELSE LET has_size(b) == size_of(b) = s
         IN  SelectSeq(blocks, has_size) \o sort_from(blocks, s + 1)

\* a variant that leaves the list in input order
sort_by_size_unsorted(blocks) == blocks

sort_by_size(blocks) == sort_from(blocks, 0)

\* the key function x["tokens"] raises KeyError for a block without tokens;
\* list.sort then leaves the list as it was
sort_raises(blocks) ==
    \E k \in 1..Len(blocks) : ~has_key(blocks[k], "tokens")

\* if size < self.min_size: continue
below_min_size_inclusive(size, ms) == size <= ms

below_min_size(size, ms) == size < ms

\* if abs(size1 - size2) / max(size1, size2) > (1 - self.min_similarity)
size_ratio_skip(size1, size2, msim) ==
    LET ratio == Quotient(Abs(size1 - size2), Max(size1, size2))
    IN  double_gt(IF ratio \in SmallQuotients THEN Doubles[ratio]
                  ELSE double(ratio),
                  IF msim \in SmallQuotients THEN OneMinusDoubles[msim]
                  ELSE OneMinus(double(msim)))

\* the division of that test raises ZeroDivisionError when max(size1, size2)
\* is 0
size_ratio_raises(size1, size2) == Max(size1, size2) = 0

\* if similarity >= self.min_similarity
reaches_strict(sim, msim) == FloatGt(sim, msim)

reaches(sim, msim) == FloatGeq(sim, msim)

\* block1["location"], block2["location"] raise KeyError for a block
\* without a location
match_of(block1, block2, sim) ==
    IF has_key(block1, "location") /\ has_key(block2, "location")
    THEN [block1 |-> block1.location, block2 |-> block2.location,
          similarity |-> sim, size |-> size_of(block1)]
    ELSE KeyError

\* a variant without the size-ratio test
reaches_line_60_always(block1, block2, ms, msim) ==
    ~below_min_size(size_of(block2), ms)

\* the inner loop reaches line 60, the call of calculate_similarity, for
\* block2: neither continue was taken
reaches_line_60(block1, block2, ms, msim) ==
    /\ ~below_min_size(size_of(block2), ms)
    /\ ~size_ratio_raises(size_of(block1), size_of(block2))
    /\ ~size_ratio_skip(size_of(block1), size_of(block2), msim)

\* the inner loop evaluates the size-ratio test for block2 and its division
\* raises
raises_at_line_54(block1, block2, ms) ==
    /\ ~below_min_size(size_of(block2), ms)
    /\ size_ratio_raises(size_of(block1), size_of(block2))

\* the body of the inner loop for one block2: the matches it appends
compare_pair(block1, block2, ms, msim) ==
    IF raises_at_line_54(block1, block2, ms) THEN <<ZeroDivisionError>>
    ELSE IF ~reaches_line_60(block1, block2, ms, msim) THEN <<>>
    ELSE LET sim == calculate_similarity(block1.tokens, block2.tokens)
         IN  IF reaches(sim, msim) THEN <<match_of(block1, block2, sim)>>
             ELSE <<>>

\* for block2 in code_blocks[i + 1:], from position j on
RECURSIVE inner_loop(_, _, _, _, _)
inner_loop(blocks, i, j, ms, msim) ==
    IF j > Len(blocks) THEN <<>>
    ELSE compare_pair(blocks[i], blocks[j], ms, msim)
         \o inner_loop(blocks, i, j + 1, ms, msim)

\* for i, block1 in enumerate(code_blocks), from position i on
RECURSIVE outer_loop(_, _, _, _)
outer_loop(blocks, i, ms, msim) ==
    IF i > Len(blocks) THEN <<>>
    ELSE (IF below_min_size(size_of(blocks[i]), ms) THEN <<>>
          ELSE inner_loop(blocks, i, i + 1, ms, msim))
         \o outer_loop(blocks, i + 1, ms, msim)

find_duplicates_A(blocks, ms, msim) ==
    outer_loop(sort_by_size(blocks), 1, ms, msim)

\* the pairs the loops hand to calculate_similarity, in call order, and the
\* pairs whose size-ratio test raises; the third component tells which
RECURSIVE inner_calls(_, _, _, _, _)
inner_calls(blocks, i, j, ms, msim) ==
    IF j > Len(blocks) THEN <<>>
    ELSE (IF raises_at_line_54(blocks[i], blocks[j], ms)
          THEN <<<<blocks[i], blocks[j], "raises">>>>
          ELSE IF reaches_line_60(blocks[i], blocks[j], ms, msim)
          THEN <<<<blocks[i], blocks[j], "call">>>> ELSE <<>>)
         \o inner_calls(blocks, i, j + 1, ms, msim)

RECURSIVE outer_calls(_, _, _, _)
outer_calls(blocks, i, ms, msim) ==
    IF i > Len(blocks) THEN <<>>
    ELSE (IF below_min_size(size_of(blocks[i]), ms) THEN <<>>
          ELSE inner_calls(blocks, i, i + 1, ms, msim))
         \o outer_calls(blocks, i + 1, ms, msim)

\* the calls made before an exception ends the loops: those before the first
\* pair whose size-ratio test raises, and up to the first pair whose match
\* cannot be built
RECURSIVE calls_made(_, _)
calls_made(pairs, msim) ==
    IF pairs = <<>> \/ Head(pairs)[3] = "raises" THEN <<>>
    ELSE LET call == <<Head(pairs)[1], Head(pairs)[2]>>
             sim == calculate_similarity(call[1].tokens, call[2].tokens)
         IN  IF reaches(sim, msim)
                /\ is_exception(match_of(call[1], call[2], sim))
             THEN <<call>>
             ELSE <<call>> \o calls_made(Tail(pairs), msim)

calculate_similarity_calls(blocks, ms, msim) ==
    calls_made(outer_calls(sort_by_size(blocks), 1, ms, msim), msim)

\* ------------------- Strategy B: tools/Duplication find_duplicates
\* if len(tokens) < self.min_size: continue
too_short_inclusive(tokens, ms) == Len(tokens) <= ms

too_short(tokens, ms) == Len(tokens) < ms

\* key = tuple(tokens)
\* a key that forgets the order: the tokens regrouped in one fixed order
token_order == CHOOSE f \in [1..Cardinality(Tokens) -> Tokens] :
                  \A x \in Tokens : \E k \in DOMAIN f : f[k] = x
RECURSIVE regroup(_, _)
regroup(tokens, k) ==
    IF k > Cardinality(Tokens) THEN <<>>
    ELSE LET is_kth(x) == x = token_order[k]
         IN  SelectSeq(tokens, is_kth) \o regroup(tokens, k + 1)
key_sorted(tokens) == regroup(tokens, 1)

key_of(tokens) == tokens

\* duplicates_by_tokens, an insertion-ordered dict, is a sequence of entries
\* [key, blocks]; duplicates_by_tokens[key].append(block)
dict_append_front(d, key, block) ==
    IF \E k \in 1..Len(d) : d[k].key = key
    THEN [k \in 1..Len(d) |->
            IF d[k].key = key
            THEN [key |-> key, blocks |-> <<block>> \o d[k].blocks]
            ELSE d[k]]
    ELSE Append(d, [key |-> key, blocks |-> <<block>>])

\* a variant that moves the key it appends to behind the other keys
dict_append_last(d, key, block) ==
    IF \E k \in 1..Len(d) : d[k].key = key
    THEN LET has_key_of(e) == e.key = key
             other(e) == e.key # key
             e == SelectSeq(d, has_key_of)[1]
         IN  Append(SelectSeq(d, other),
                    [key |-> key, blocks |-> Append(e.blocks, block)])
    ELSE Append(d, [key |-> key, blocks |-> <<block>>])

dict_append(d, key, block) ==
    IF \E k \in 1..Len(d) : d[k].key = key
    THEN [k \in 1..Len(d) |->
            IF d[k].key = key
            THEN [key |-> key, blocks |-> Append(d[k].blocks, block)]
            ELSE d[k]]
    ELSE Append(d, [key |-> key, blocks |-> <<block>>])

\* for block in code_blocks, from position k on, with the dict so far
RECURSIVE group_by_tokens(_, _, _, _)
group_by_tokens(blocks, k, ms, d) ==
    IF k > Len(blocks) THEN d
    ELSE IF too_short(get_tokens(blocks[k]), ms)
         THEN group_by_tokens(blocks, k + 1, ms, d)
         ELSE group_by_tokens(blocks, k + 1, ms,
                  dict_append(d, key_of(get_tokens(blocks[k])), blocks[k]))

\* if len(blocks) < 2: continue
not_duplicated_none(blocks) == Len(blocks) < 1

not_duplicated(blocks) == Len(blocks) < 2

\* files = {b["location"]["file"] for b in blocks}; cross_file = len(files) > 1
cross_file_of(blocks) ==
    Cardinality({blocks[k].location.file : k \in 1..Len(blocks)}) > 1

locations_of(blocks) ==
    [k \in 1..Len(blocks) |->
        [file |-> blocks[k].location.file,
         start_line |-> blocks[k].location.start_line,
         end_line |-> blocks[k].location.end_line]]

\* b["location"]["file"] raises KeyError for a block without a location or
\* with a location without a file
has_file(block) == has_key(block, "location") /\ has_key(block.location, "file")

group_of(entry) ==
    IF \A k \in 1..Len(entry.blocks) : has_file(entry.blocks[k])
    THEN [size |-> Len(entry.key),
          num_duplicates |-> Len(entry.blocks),
          locations |-> locations_of(entry.blocks),
          cross_file |-> cross_file_of(entry.blocks),
          tokens |-> entry.key,
          similarity |-> FloatOne]
    ELSE KeyError

\* for token_key, blocks in duplicates_by_tokens.items(), from entry k on
RECURSIVE groups_from(_, _)
groups_from(d, k) ==
    IF k > Len(d) THEN <<>>
    ELSE (IF not_duplicated(d[k].blocks) THEN <<>> ELSE <<group_of(d[k])>>)
         \o groups_from(d, k + 1)

find_duplicates_B(blocks, ms) ==
    groups_from(group_by_tokens(blocks, 1, ms, <<>>), 1)

\* ---------------- Reporter._convert_legacy_duplicates_to_group
legacy_cross_file_never(dup) == FALSE

legacy_cross_file(dup) == dup.block1.file # dup.block2.file

convert_legacy_duplicates_to_group(dups) ==
    [k \in 1..Len(dups) |->
        [size |-> dups[k].size,
         num_duplicates |-> 2,
         locations |-> <<dups[k].block1, dups[k].block2>>,
         cross_file |-> legacy_cross_file(dups[k]),
         tokens |-> <<>>,
         similarity |-> dups[k].similarity]]

\* ---------------------------------------------------------------- actions
Init ==
    /\ code_blocks = <<>>
    /\ min_size = "none"
    /\ min_similarity = "none"
    /\ phase = "input"
    /\ duplicates = <<>>
    /\ duplicate_groups = <<>>
    /\ legacy_groups = <<>>
    /\ tokens1 = <<>>
    /\ tokens2 = <<>>
    /\ similarity = "none"
    /\ kind1 = "list"
    /\ kind2 = "list"
    /\ raised = "none"
    /\ similarity_calls = <<>>
    /\ ParserIdle

RECURSIVE total_tokens(_)
total_tokens(blocks) ==
    IF blocks = <<>> THEN 0
    ELSE Len(get_tokens(Head(blocks))) + total_tokens(Tail(blocks))

\* the extractor hands over one more block: the block list grows by one
AddBlock ==
    /\ phase = "input"
    /\ Len(code_blocks) < MaxBlocks
    /\ \E n \in 0..(MaxTotalTokens - total_tokens(code_blocks)) :
       \E t \in [1..n -> Tokens], f \in Files :
          code_blocks' = Append(code_blocks, Block(t, f, Len(code_blocks) + 1))
    /\ UNCHANGED <<min_size, min_similarity, phase, duplicates,
                   duplicate_groups, legacy_groups, tokens1, tokens2, similarity>>
    /\ UNCHANGED <<simkinds, raised, parser_vars, files, trace_vars, run_vars, token_vars>>

\* detector.DuplicateDetector(min_similarity, min_size).find_duplicates(code_blocks):
\* it returns the matches, or lets a KeyError escape
find_duplicates_call(ms, msim) ==
    /\ phase = "input"
    /\ min_size' = ms
    /\ min_similarity' = msim
    /\ IF sort_raises(code_blocks)
       THEN /\ raised' = KeyError.exception
            /\ UNCHANGED <<code_blocks, duplicates, similarity_calls>>
       ELSE /\ code_blocks' = sort_by_size(code_blocks)
            /\ similarity_calls' =
                   calculate_similarity_calls(code_blocks, ms, msim)
            /\ raised' = exception_in(find_duplicates_A(code_blocks, ms, msim))
            /\ duplicates' = IF raised' = "none"
                             THEN find_duplicates_A(code_blocks, ms, msim)
                             ELSE duplicates
    /\ phase' = "matchedA"
    /\ UNCHANGED <<duplicate_groups, legacy_groups, tokens1, tokens2, similarity>>
    /\ UNCHANGED <<simkinds, parser_vars, files, run_vars, token_vars>>

FindDuplicatesA ==
    \E ms \in 1..MaxMinSize, msim \in MinSimilarities :
        find_duplicates_call(ms, msim)

\* Duplication.DuplicateDetector(min_similarity, min_size).find_duplicates(code_blocks):
\* it returns the groups, or lets a KeyError escape
FindDuplicatesB ==
    /\ phase = "input"
    /\ \E ms \in 1..MaxMinSize :
          /\ min_size' = ms
          /\ raised' = exception_in(find_duplicates_B(code_blocks, ms))
          /\ duplicate_groups' = IF raised' = "none"
                                 THEN find_duplicates_B(code_blocks, ms)
                                 ELSE duplicate_groups
    /\ phase' = "matchedB"
    /\ UNCHANGED <<code_blocks, min_similarity, duplicates,
                   legacy_groups, tokens1, tokens2, similarity>>
    /\ UNCHANGED <<simkinds, parser_vars, files, trace_vars, run_vars, token_vars>>

\* Reporter._convert_legacy_duplicates_to_group(duplicates), on Strategy A's result
ConvertLegacy ==
    /\ phase = "matchedA"
    /\ legacy_groups' = convert_legacy_duplicates_to_group(duplicates)
    /\ phase' = "reported"
    /\ UNCHANGED <<code_blocks, min_size, min_similarity, duplicates,
                   duplicate_groups, tokens1, tokens2, similarity>>
    /\ UNCHANGED <<simkinds, raised, parser_vars, files, trace_vars, run_vars, token_vars>>

Next == AddBlock \/ FindDuplicatesA \/ FindDuplicatesB \/ ConvertLegacy

Spec == Init /\ [][Next]_vars

\* ----------------------------- both matchers on the same list of blocks
\* Duplication.DuplicateDetector(min_similarity, min_size).find_duplicates on
\* the list Strategy A has just worked on, with the same min_size
FindDuplicatesBAfterA ==
    /\ phase = "matchedA"
    /\ phase' = "matchedAB"
    /\ raised' = exception_in(find_duplicates_B(code_blocks, min_size))
    /\ duplicate_groups' = IF raised' = "none"
                           THEN find_duplicates_B(code_blocks, min_size)
                           ELSE duplicate_groups
    /\ UNCHANGED <<code_blocks, min_size, min_similarity, duplicates,
                   legacy_groups, tokens1, tokens2, similarity>>
    /\ UNCHANGED <<simkinds, parser_vars, files, trace_vars, run_vars, token_vars>>

\* ------------------------------------- Strategy B on the blocks of a file
\* the extractor hands over one more block of the file f1.py
MaxFileBlocks == 4

AddBlockOfFile ==
    /\ phase = "input"
    /\ Len(code_blocks) < MaxFileBlocks
    /\ \E n \in 0..(MaxTotalTokens - total_tokens(code_blocks)) :
       \E t \in [1..n -> Tokens] :
          code_blocks' = Append(code_blocks,
                                Block(t, "f1.py", Len(code_blocks) + 1))
    /\ UNCHANGED <<min_size, min_similarity, phase, duplicates,
                   duplicate_groups, legacy_groups, tokens1, tokens2, similarity>>
    /\ UNCHANGED <<simkinds, raised, parser_vars, files, trace_vars, run_vars, token_vars>>

NextGroups == AddBlockOfFile \/ FindDuplicatesB

SpecGroups == Init /\ [][NextGroups]_vars

\* ------------------------------- Strategy A with any integer min_size
\* the constructor stores min_size as given; the command line takes any int
MaxNegMinSize == 1

FindDuplicatesAnyMinSize ==
    \E ms \in (0 - MaxNegMinSize)..MaxMinSize, msim \in MinSimilarities :
        find_duplicates_call(ms, msim)

NextAnyMinSize == AddBlock \/ FindDuplicatesAnyMinSize

SpecAnyMinSize == Init /\ [][NextAnyMinSize]_vars

NextBoth == AddBlock \/ FindDuplicatesA \/ FindDuplicatesBAfterA

SpecBoth == Init /\ [][NextBoth]_vars

\* ------------------- Strategy A at thresholds that are not dyadic
\* 0.8 is the default min_similarity of the detector and of the command line;
\* 1 - 0.8 is 0.19999999999999996 in binary floating point
DecimalMinSimilarities == {<<4, 5>>, <<2, 3>>}

\* n different tokens: t1, t2, ...
near_tokens(n) == [k \in 1..n |-> "t" \o ToString(k)]

\* the same tokens with another first token: u, t2, ...
changed_tokens(n) == [k \in 1..n |-> IF k = 1 THEN "u" ELSE near_tokens(n)[k]]

\* the extractor hands over one more block of the file f1.py: a block that
\* holds the first tokens of the longest block, as they are or, when there
\* are three or more, with the first of them changed
AddNearBlock ==
    /\ phase = "input"
    /\ Len(code_blocks) < MaxBlocks
    /\ \E n \in 0..MaxNearTokens :
       \E tokens \in {near_tokens(n)}
                         \cup (IF n >= 3 THEN {changed_tokens(n)} ELSE {}) :
          code_blocks' = Append(code_blocks,
                                Block(tokens, "f1.py", Len(code_blocks) + 1))
    /\ UNCHANGED <<min_size, min_similarity, phase, duplicates,
                   duplicate_groups, legacy_groups, tokens1, tokens2, similarity>>
    /\ UNCHANGED <<simkinds, raised, parser_vars, files, trace_vars, run_vars, token_vars>>

FindDuplicatesDecimal ==
    \E ms \in 1..MaxMinSize, msim \in DecimalMinSimilarities :
        find_duplicates_call(ms, msim)

NextDecimal == AddNearBlock \/ FindDuplicatesDecimal

SpecDecimal == Init /\ [][NextDecimal]_vars

\* ------------------------------------ the matchers on malformed blocks
\* a block that lacks its tokens, its location, or its location's file
without_tokens(block) == [location |-> block.location]
without_location(block) == [tokens |-> block.tokens]
without_file(block) ==
    [tokens |-> block.tokens,
     location |-> [start_line |-> block.location.start_line,
                   end_line |-> block.location.end_line]]

\* one more block reaches the matcher, a malformed one
AddMalformedBlock ==
    /\ phase = "input"
    /\ Len(code_blocks) < MaxBlocks
    /\ \E n \in 0..(MaxTotalTokens - total_tokens(code_blocks)) :
       \E t \in [1..n -> Tokens], f \in Files :
          LET block == Block(t, f, Len(code_blocks) + 1)
          IN  \/ code_blocks' = Append(code_blocks, without_location(block))
              \/ code_blocks' = Append(code_blocks, without_file(block))
              \/ n = 0 /\ code_blocks' = Append(code_blocks, without_tokens(block))
    /\ UNCHANGED <<min_size, min_similarity, phase, duplicates,
                   duplicate_groups, legacy_groups, tokens1, tokens2, similarity>>
    /\ UNCHANGED <<simkinds, raised, parser_vars, files, trace_vars, run_vars, token_vars>>

NextMalformed ==
    AddBlock \/ AddMalformedBlock \/ FindDuplicatesA \/ FindDuplicatesB

SpecMalformed == Init /\ [][NextMalformed]_vars

\* ------------------------------- calculate_similarity on its own inputs
InitSim ==
    /\ code_blocks = <<>>
    /\ min_size = "none"
    /\ min_similarity = "none"
    /\ phase = "sim"
    /\ duplicates = <<>>
    /\ duplicate_groups = <<>>
    /\ legacy_groups = <<>>
    /\ tokens1 \in SimTokenLists
    /\ tokens2 \in SimTokenLists
    /\ similarity = "none"
    /\ kind1 \in ArgumentKinds
    /\ kind2 \in ArgumentKinds
    /\ raised = "none"
    /\ similarity_calls = <<>>
    /\ ParserIdle

CalculateSimilarity ==
    /\ phase = "sim"
    /\ similarity = "none"
    /\ similarity' = calculate_similarity(tokens1, tokens2)
    /\ UNCHANGED <<code_blocks, min_size, min_similarity, phase, duplicates,
                   duplicate_groups, legacy_groups, tokens1, tokens2>>
    /\ UNCHANGED <<simkinds, raised, parser_vars, files, trace_vars, run_vars, token_vars>>

NextSim == CalculateSimilarity

SpecSim == InitSim /\ [][NextSim]_vars

\* ------------------------------------------------- CodeParser (parser.py)
\* A path is modelled by its text; suffix_of is Path.suffix.
supported_extensions == {".py", ".js", ".jsx", ".cs", ".ts", ".tsx"}
Paths == {"f.py", "f.js", "f.jsx", "f.cs", "f.ts", "f.tsx", "f.txt"}
suffix_of(path) ==
    CASE path = "f.py" -> ".py"
      [] path = "f.js" -> ".js"
      [] path = "f.jsx" -> ".jsx"
      [] path = "f.cs" -> ".cs"
      [] path = "f.ts" -> ".ts"
      [] path = "f.tsx" -> ".tsx"
      [] OTHER -> ".txt"

\* the language parse_file hands to _parse_with_tree_sitter
language_of(suffix) ==
    CASE suffix \in {".js", ".jsx"} -> "javascript"
      [] suffix = ".ts" -> "typescript"
      [] suffix = ".tsx" -> "tsx"
      [] suffix = ".cs" -> "csharp"
      [] OTHER -> "none"

\* the keys of language_queries, and one language name that is not a key
QueryLanguages == {"javascript", "typescript", "tsx", "csharp"}
LanguageNames == QueryLanguages \cup {"ruby"}
\* the capture names all four queries have
Categories == {"function", "class"}
CaptureShapes == {"dict", "list", "other"}
PythonNodeTypes == {"FunctionDef", "ClassDef", "Assign"}

\* how a call ends: it returns a value or lets an exception escape
Return(value) == [returned |-> value]
Raise(name) == [exception |-> name]
\* Python's None, where a parser or a language object is expected
None == [none |-> TRUE]
is_none(v) == "none" \in DOMAIN v

\* the tokens harvested from one node: n times the token "a"
NodeTokens(n) == [k \in 1..n |-> "a"]
NodeTokenLists == {NodeTokens(n) : n \in 0..MaxNodeTokens}

\* What the text of a Python file holds: whether ast.parse rejects it, and
\* the nodes of its tree in ast.walk order (a node's lineno is its position).
PythonContents ==
    [syntax_error : BOOLEAN,
     nodes : SeqsUpTo([type : PythonNodeTypes, name : {"f"},
                       tokens : NodeTokenLists], MaxNodes)]

\* What the text of a file of a grammar language holds, as the Grammar
\* Provider sees it: whether parser.parse raises on it, the categories whose
\* query pattern does not compile for its grammar, the shape of the value
\* query.captures returns, and the captured nodes in document order (a
\* node's row is its position, counted from 0).
TreeContents ==
    [parse : {"tree", "raises"},
     bad_patterns : SUBSET Categories,
     shape : CaptureShapes,
     captures : SeqsUpTo([type : Categories, tokens : NodeTokenLists], MaxNodes)]

NoContent == [nodes |-> <<>>]

\* self._parsers after self._parsers[language_name] = parser
dict_store(d, k, v) == [x \in DOMAIN d \cup {k} |-> IF x = k THEN v ELSE d[x]]

\* the number of get_parser calls made so far, over all languages
RECURSIVE sum_over(_, _)
sum_over(f, S) ==
    IF S = {} THEN 0
    ELSE LET x == CHOOSE y \in S : TRUE IN f[x] + sum_over(f, S \ {x})

\* get_parser(language_name) of the Grammar Provider: a new parser object
\* (told apart by the number of the call that made it), None, or an exception
get_parser(calls, language_name, prov) ==
    CASE prov.get_parser[language_name] = "raises" -> Raise("LookupError")
      [] prov.get_parser[language_name] = "None" -> None
      [] OTHER -> [language |-> language_name,
                   id |-> sum_over(calls, DOMAIN calls) + 1]

\* get_language(language_name) of the Grammar Provider
get_language(language_name, prov) ==
    CASE prov.get_language[language_name] = "raises" -> Raise("LookupError")
      [] prov.get_language[language_name] = "None" -> None
      [] OTHER -> [language |-> language_name]

\* a variant that asks the Grammar Provider on every request
_get_parser_uncached(cache, calls, language_name, prov) ==
    LET parser == get_parser(calls, language_name, prov)
        called == [calls EXCEPT ![language_name] = @ + 1]
    IN  IF is_exception(parser)
        THEN [parsers |-> cache, calls |-> called, value |-> parser]
        ELSE [parsers |-> dict_store(cache, language_name, parser),
              calls |-> called, value |-> parser]

\* CodeParser._get_parser(language_name): the cache and the call counts it
\* leaves, and the parser it returns or the exception it lets escape
_get_parser(cache, calls, language_name, prov) ==
    IF language_name \notin DOMAIN cache
    THEN LET parser == get_parser(calls, language_name, prov)
             called == [calls EXCEPT ![language_name] = @ + 1]
         IN  IF is_exception(parser)
             THEN [parsers |-> cache, calls |-> called, value |-> parser]
             ELSE [parsers |-> dict_store(cache, language_name, parser),
                   calls |-> called, value |-> parser]
    ELSE [parsers |-> cache, calls |-> calls, value |-> cache[language_name]]

\* the captured nodes, each with its row
with_rows(captures) ==
    [k \in 1..Len(captures) |-> [type |-> captures[k].type,
                                  tokens |-> captures[k].tokens,
                                  row |-> k - 1]]

\* the block appended for a captured node (start_point[0] + 1 and
\* end_point[0] + 1; a node ends Len(tokens) rows below its first row)
tree_sitter_block(node, path) ==
    [location |-> Location(path, node.row + 1, Len(node.tokens)),
     tokens |-> node.tokens,
     type |-> node.type]

\* the loop over nodes: a block for every node that has tokens
RECURSIVE blocks_of_nodes(_, _)
blocks_of_nodes(nodes, path) ==
    IF nodes = <<>> THEN <<>>
    ELSE IF Head(nodes).tokens # <<>>
         THEN <<tree_sitter_block(Head(nodes), path)>>
                  \o blocks_of_nodes(Tail(nodes), path)
         ELSE blocks_of_nodes(Tail(nodes), path)

\* the keys of the captures dict: the capture names in first-seen order
RECURSIVE capture_names(_, _)
capture_names(nodes, seen) ==
    IF nodes = <<>> THEN seen
    ELSE IF \E k \in 1..Len(seen) : seen[k] = Head(nodes).type
         THEN capture_names(Tail(nodes), seen)
         ELSE capture_names(Tail(nodes), Append(seen, Head(nodes).type))

nodes_named(nodes, name) ==
    LET named(n) == n.type = name IN SelectSeq(nodes, named)

\* for capture_name, nodes in captures.items(): for node in nodes: ...
RECURSIVE blocks_of_dict(_, _, _)
blocks_of_dict(names, nodes, path) ==
    IF names = <<>> THEN <<>>
    ELSE blocks_of_nodes(nodes_named(nodes, Head(names)), path)
             \o blocks_of_dict(Tail(names), nodes, path)

\* the body of the try of _parse_with_tree_sitter; every exception raised in
\* it is caught and gives []
extract_blocks(parser, language, content, path, language_name) ==
    IF is_none(parser) \/ content.parse = "raises"
    THEN <<>>                   \* parser.parse(...) raised
    ELSE IF language_name \notin QueryLanguages
    THEN <<>>                   \* not query_str
    ELSE IF is_none(language) \/ content.bad_patterns # {}
    THEN <<>>                   \* language.query(query_str) raised
    ELSE IF content.shape = "dict"
    THEN blocks_of_dict(capture_names(with_rows(content.captures), <<>>),
                        with_rows(content.captures), path)
    ELSE IF content.shape = "list"
    THEN blocks_of_nodes(with_rows(content.captures), path)
    ELSE <<>>                   \* unexpected captures format

\* a variant whose cached parser carries over the tree of its last parse
_parse_with_tree_sitter_stale(cache, calls, content, path, language_name, prov) ==
    LET got == _get_parser(cache, calls, language_name, prov)
        language == get_language(language_name, prov)
    IN  [parsers |-> got.parsers,
         calls |-> got.calls,
         outcome |->
            IF is_exception(got.value) THEN got.value
            ELSE IF is_exception(language) THEN language
            ELSE IF language_name \in DOMAIN cache THEN Return(<<>>)
            ELSE Return(extract_blocks(got.value, language, content, path,
                                       language_name))]

\* CodeParser._parse_with_tree_sitter(content, file_path, language_name)
_parse_with_tree_sitter(cache, calls, content, path, language_name, prov) ==
    LET got == _get_parser(cache, calls, language_name, prov)
        language == get_language(language_name, prov)
    IN  [parsers |-> got.parsers,
         calls |-> got.calls,
         outcome |->
            IF is_exception(got.value) THEN got.value
            ELSE IF is_exception(language) THEN language
            ELSE Return(extract_blocks(got.value, language, content, path,
                                       language_name))]

\* the block of a FunctionDef or ClassDef node (one that ends on the line it
\* starts on)
python_block(node, lineno, path) ==
    [location |-> Location(path, lineno, 0),
     tokens |-> <<node.name>> \o node.tokens]

RECURSIVE python_blocks(_, _, _)
python_blocks(nodes, k, path) ==
    IF k > Len(nodes) THEN <<>>
    ELSE IF nodes[k].type \in {"FunctionDef", "ClassDef"}
         THEN <<python_block(nodes[k], k, path)>> \o python_blocks(nodes, k + 1, path)
         ELSE python_blocks(nodes, k + 1, path)

\* CodeParser._parse_python(content, file_path)
_parse_python(content, path) ==
    IF content.syntax_error THEN <<>> ELSE python_blocks(content.nodes, 1, path)

\* open(file_path, "r", encoding="utf-8") and f.read(): the exception raised
\* for a file that cannot be read
read_error(f) ==
    CASE f.read = "missing" -> "FileNotFoundError"
      [] f.read = "denied" -> "PermissionError"
      [] f.read = "not_utf8" -> "UnicodeDecodeError"
      [] OTHER -> "none"

\* CodeParser.parse_file(file_path)
parse_file(cache, calls, f, prov) ==
    IF suffix_of(f.path) \notin supported_extensions
    THEN [parsers |-> cache, calls |-> calls, outcome |-> Return(<<>>)]
    ELSE IF read_error(f) # "none"
    THEN [parsers |-> cache, calls |-> calls, outcome |-> Raise(read_error(f))]
    ELSE IF suffix_of(f.path) = ".py"
    THEN [parsers |-> cache, calls |-> calls,
          outcome |-> Return(_parse_python(f.content, f.path))]
    ELSE _parse_with_tree_sitter(cache, calls, f.content, f.path,
                                 language_of(suffix_of(f.path)), prov)

\* ---------------------------------- one CodeParser and one file under test
ReadOutcomes == {"ok", "missing", "denied", "not_utf8"}
ContentsOf(path) ==
    IF suffix_of(path) = ".py" THEN PythonContents
    ELSE IF suffix_of(path) \in supported_extensions THEN TreeContents
    ELSE {NoContent}
\* the Grammar Provider treats every language name alike
Providers ==
    {[get_parser |-> [l \in LanguageNames |-> p],
      get_language |-> [l \in LanguageNames |-> g]] :
        p \in {"parser", "None", "raises"}, g \in {"language", "None", "raises"}}

\* the number of things that go wrong with the file under test
Faults(f, prov) ==
      (IF f.read # "ok" THEN 1 ELSE 0)
    + (IF prov.get_parser["ruby"] # "parser" THEN 1 ELSE 0)
    + (IF prov.get_language["ruby"] # "language" THEN 1 ELSE 0)
    + (IF "syntax_error" \in DOMAIN f.content /\ f.content.syntax_error
       THEN 1 ELSE 0)
    + (IF "parse" \in DOMAIN f.content /\ f.content.parse = "raises"
       THEN 1 ELSE 0)
    + (IF "bad_patterns" \in DOMAIN f.content /\ f.content.bad_patterns # {}
       THEN 1 ELSE 0)
    + (IF "shape" \in DOMAIN f.content /\ f.content.shape = "other"
       THEN 1 ELSE 0)

MatcherIdle ==
    /\ code_blocks = <<>>
    /\ min_size = "none"
    /\ min_similarity = "none"
    /\ phase = "parser"
    /\ duplicates = <<>>
    /\ duplicate_groups = <<>>
    /\ legacy_groups = <<>>
    /\ tokens1 = <<>>
    /\ tokens2 = <<>>
    /\ similarity = "none"
    /\ kind1 = "list"
    /\ kind2 = "list"
    /\ raised = "none"
    /\ similarity_calls = <<>>

matcher_vars == <<code_blocks, min_size, min_similarity, phase, duplicates,
                  duplicate_groups, legacy_groups, tokens1, tokens2,
                  similarity, simkinds, raised>>

\* a new CodeParser, a file, and a Grammar Provider; at most one thing goes
\* wrong with the file
InitExtract ==
    /\ MatcherIdle
    /\ RunIdle
    /\ TokenizerIdle
    /\ \E p \in Paths, r \in ReadOutcomes :
       \E c \in ContentsOf(p) :
          file = [path |-> p, read |-> r, content |-> c]
    /\ provider \in Providers
    /\ Faults(file, provider) <= 1
    /\ parsers = EmptyDict
    /\ get_parser_calls = [l \in LanguageNames |-> 0]
    /\ results = <<>>
    /\ ThreadsIdle
    /\ files = <<>>

\* parser.parse_file(file.path)
ParseFile ==
    /\ phase = "parser"
    /\ Len(results) < MaxCalls
    /\ LET r == parse_file(parsers, get_parser_calls, file, provider)
       IN  /\ parsers' = r.parsers
           /\ get_parser_calls' = r.calls
           /\ results' = Append(results,
                  [op |-> "parse_file",
                   path |-> file.path,
                   cached |-> language_of(suffix_of(file.path))
                                  \in DOMAIN parsers,
                   outcome |-> r.outcome])
    /\ UNCHANGED <<file, provider, matcher_vars, thread_vars, files, trace_vars, run_vars, token_vars>>

\* parser._parse_with_tree_sitter(content, file.path, language_name), on the
\* text of a file of a grammar language that was read
ParseWithTreeSitter ==
    /\ phase = "parser"
    /\ Len(results) < MaxCalls
    /\ file.read = "ok"
    /\ language_of(suffix_of(file.path)) \in QueryLanguages
    /\ \E language_name \in {language_of(suffix_of(file.path)), "ruby"} :
          LET r == _parse_with_tree_sitter(parsers, get_parser_calls,
                       file.content, file.path, language_name, provider)
          IN  /\ parsers' = r.parsers
              /\ get_parser_calls' = r.calls
              /\ results' = Append(results,
                     [op |-> "_parse_with_tree_sitter",
                      language_name |-> language_name,
                      cached |-> language_name \in DOMAIN parsers,
                      outcome |-> r.outcome])
    /\ UNCHANGED <<file, provider, matcher_vars, thread_vars, files, trace_vars, run_vars, token_vars>>

NextExtract == ParseFile \/ ParseWithTreeSitter

SpecExtract == InitExtract /\ [][NextExtract]_vars

\* ------------------------- one CodeParser, several files and languages
\* a readable file without definitions
PlainFile(path) ==
    [path |-> path,
     read |-> "ok",
     content |-> IF suffix_of(path) = ".py"
                 THEN [syntax_error |-> FALSE, nodes |-> <<>>]
                 ELSE IF suffix_of(path) \in supported_extensions
                 THEN [parse |-> "tree", bad_patterns |-> {},
                       shape |-> "dict", captures |-> <<>>]
                 ELSE NoContent]

\* get_parser supplies a parser for some language names and raises for the
\* others; get_language supplies every language
CacheProviders ==
    {[get_parser |-> p, get_language |-> [l \in LanguageNames |-> "language"]] :
        p \in [LanguageNames -> {"parser", "raises"}]}

InitCache ==
    /\ MatcherIdle
    /\ RunIdle
    /\ TokenizerIdle
    /\ file = PlainFile("f.txt")
    /\ provider \in CacheProviders
    /\ parsers = EmptyDict
    /\ get_parser_calls = [l \in LanguageNames |-> 0]
    /\ results = <<>>
    /\ ThreadsIdle
    /\ files = <<>>

\* parser._get_parser(language_name)
GetParser ==
    /\ phase = "parser"
    /\ Len(results) < MaxCalls
    /\ \E language_name \in LanguageNames :
          LET r == _get_parser(parsers, get_parser_calls, language_name, provider)
          IN  /\ parsers' = r.parsers
              /\ get_parser_calls' = r.calls
              /\ results' = Append(results,
                     [op |-> "_get_parser",
                      language_name |-> language_name,
                      cached |-> language_name \in DOMAIN parsers,
                      outcome |-> IF is_exception(r.value) THEN r.value
                                  ELSE Return(r.value)])
    /\ UNCHANGED <<file, provider, matcher_vars, thread_vars, files, trace_vars, run_vars, token_vars>>

\* parser.parse_file(path), on the next file of the run
ParseNextFile ==
    /\ phase = "parser"
    /\ Len(results) < MaxCalls
    /\ \E path \in Paths :
          LET r == parse_file(parsers, get_parser_calls, PlainFile(path), provider)
          IN  /\ file' = PlainFile(path)
              /\ parsers' = r.parsers
              /\ get_parser_calls' = r.calls
              /\ results' = Append(results,
                     [op |-> "parse_file",
                      path |-> path,
                      cached |-> language_of(suffix_of(path)) \in DOMAIN parsers,
                      outcome |-> r.outcome])
    /\ UNCHANGED <<provider, matcher_vars, thread_vars, files, trace_vars, run_vars, token_vars>>

NextCache == GetParser \/ ParseNextFile

SpecCache == InitCache /\ [][NextCache]_vars

\* --------------- concurrent callers of parse_file on one CodeParser
\* Every caller parses a file of its own with the same text and the same
\* grammar language as the file under test.  A caller runs _get_parser one
\* line at a time; nothing in the code keeps another caller from running
\* between two lines.
RaceProviders ==
    {[get_parser |-> [l \in LanguageNames |-> p],
      get_language |-> [l \in LanguageNames |-> "language"]] :
        p \in {"parser", "raises"}}

InitRace ==
    /\ MatcherIdle
    /\ RunIdle
    /\ TokenizerIdle
    /\ \E path \in Paths :
          /\ language_of(suffix_of(path)) \in QueryLanguages
          /\ file = PlainFile(path)
    /\ provider \in RaceProviders
    /\ parsers = EmptyDict
    /\ get_parser_calls = [l \in LanguageNames |-> 0]
    /\ results = <<>>
    /\ ThreadsIdle
    /\ files = <<>>

race_language == language_of(suffix_of(file.path))

\* parse_file up to line 20 of _get_parser:
\* if language_name not in self._parsers
ThreadCheck(t) ==
    /\ pc[t] = "idle"
    /\ pc' = [pc EXCEPT ![t] = IF race_language \notin DOMAIN parsers
                               THEN "call" ELSE "return"]
    /\ UNCHANGED <<file, provider, parsers, get_parser_calls, results,
                   local_parser, returned_parser, matcher_vars, files, trace_vars, run_vars, token_vars>>

\* line 21: parser = get_parser(language_name); an exception ends parse_file
ThreadCall(t) ==
    /\ pc[t] = "call"
    /\ LET parser == get_parser(get_parser_calls, race_language, provider)
       IN  IF is_exception(parser)
           THEN /\ pc' = [pc EXCEPT ![t] = "done"]
                /\ results' = Append(results,
                       [op |-> "parse_file", path |-> file.path,
                        cached |-> FALSE, outcome |-> parser])
                /\ UNCHANGED local_parser
           ELSE /\ pc' = [pc EXCEPT ![t] = "store"]
                /\ local_parser' = [local_parser EXCEPT ![t] = parser]
                /\ UNCHANGED results
    /\ get_parser_calls' = [get_parser_calls EXCEPT ![race_language] = @ + 1]
    /\ UNCHANGED <<file, provider, parsers, returned_parser, matcher_vars, files, trace_vars, run_vars, token_vars>>

\* line 22: self._parsers[language_name] = parser
ThreadStore(t) ==
    /\ pc[t] = "store"
    /\ parsers' = dict_store(parsers, race_language, local_parser[t])
    /\ pc' = [pc EXCEPT ![t] = "return"]
    /\ UNCHANGED <<file, provider, get_parser_calls, results,
                   local_parser, returned_parser, matcher_vars, files, trace_vars, run_vars, token_vars>>

\* line 23: return self._parsers[language_name], and the rest of
\* _parse_with_tree_sitter, which works on the caller's own values
ThreadReturn(t) ==
    /\ pc[t] = "return"
    /\ returned_parser' = [returned_parser EXCEPT ![t] = parsers[race_language]]
    /\ results' = Append(results,
           [op |-> "parse_file", path |-> file.path,
            cached |-> local_parser[t] = [unbound |-> TRUE],
            outcome |-> Return(extract_blocks(parsers[race_language],
                                   get_language(race_language, provider),
                                   file.content, file.path, race_language))])
    /\ pc' = [pc EXCEPT ![t] = "done"]
    /\ UNCHANGED <<file, provider, parsers, get_parser_calls,
                   local_parser, matcher_vars, files, trace_vars, run_vars, token_vars>>

NextRace ==
    \E t \in Threads :
        ThreadCheck(t) \/ ThreadCall(t) \/ ThreadStore(t) \/ ThreadReturn(t)

SpecRace == InitRace /\ [][NextRace]_vars

\* ------------- parse_code_files (runner.py, and the same code in main.py)
\* language_name in self._parsers, for the language of the file: _get_parser
\* would hand out the cached parser without a get_parser call
in_cache(cache, f) == language_of(suffix_of(f.path)) \in DOMAIN cache

\* a variant whose try is around the loop: the first exception ends the loop
RECURSIVE parse_code_files_abort(_, _, _, _, _)
parse_code_files_abort(file_list, k, cache, calls, prov) ==
    IF k > Len(file_list)
    THEN [code_blocks |-> <<>>, parsers |-> cache, calls |-> calls,
          outcomes |-> <<>>, cached |-> <<>>]
    ELSE LET r == parse_file(cache, calls, file_list[k], prov)
             rest == IF is_exception(r.outcome)
                     THEN [code_blocks |-> <<>>, parsers |-> r.parsers,
                           calls |-> r.calls, outcomes |-> <<>>,
                           cached |-> <<>>]
                     ELSE parse_code_files_abort(file_list, k + 1, r.parsers,
                                                 r.calls, prov)
         IN  [code_blocks |->
                 (IF is_exception(r.outcome) THEN <<>> ELSE r.outcome.returned)
                     \o rest.code_blocks,
              parsers |-> rest.parsers,
              calls |-> rest.calls,
              outcomes |-> <<r.outcome>> \o rest.outcomes,
              cached |-> <<in_cache(cache, file_list[k])>> \o rest.cached]

\* for file in files: try: code_blocks.extend(parser.parse_file(file))
\* except Exception: pass -- from the k-th file on; the blocks collected, the
\* parser's cache and call counts afterwards, how each parse_file ended, and
\* whether the file's language was in the cache when its call began
RECURSIVE parse_code_files(_, _, _, _, _)
parse_code_files(file_list, k, cache, calls, prov) ==
    IF k > Len(file_list)
    THEN [code_blocks |-> <<>>, parsers |-> cache, calls |-> calls,
          outcomes |-> <<>>, cached |-> <<>>]
    ELSE LET r == parse_file(cache, calls, file_list[k], prov)
             rest == parse_code_files(file_list, k + 1, r.parsers, r.calls, prov)
         IN  [code_blocks |->
                 (IF is_exception(r.outcome) THEN <<>> ELSE r.outcome.returned)
                     \o rest.code_blocks,
              parsers |-> rest.parsers,
              calls |-> rest.calls,
              outcomes |-> <<r.outcome>> \o rest.outcomes,
              cached |-> <<in_cache(cache, file_list[k])>> \o rest.cached]

\* what replicheck.utils may hold under the name find_flake8_unused
UtilsNames == {"missing", "defined"}

\* the files of a run: Python, grammar-language and other files, each with a
\* function and a class in it, readable or missing
RunPaths == {"f.py", "f.js", "f.ts", "f.tsx", "f.txt"}
RunFile(path, read) ==
    [path |-> path,
     read |-> read,
     content |->
        IF suffix_of(path) = ".py"
        THEN [syntax_error |-> FALSE,
              nodes |-> <<[type |-> "FunctionDef", name |-> "f", tokens |-> <<>>],
                          [type |-> "ClassDef", name |-> "f", tokens |-> <<>>]>>]
        ELSE IF suffix_of(path) \in supported_extensions
        THEN [parse |-> "tree", bad_patterns |-> {}, shape |-> "dict",
              captures |-> <<[type |-> "function", tokens |-> NodeTokens(1)],
                             [type |-> "class", tokens |-> NodeTokens(1)]>>]
        ELSE NoContent]
RunFiles == {RunFile(path, read) : path \in RunPaths, read \in {"ok", "missing"}}

InitParseFiles ==
    /\ MatcherIdle
    /\ root_exists = TRUE
    /\ output_format = "text"
    /\ failing_step = "none"
    /\ exit_status = "none"
    /\ call_log = <<>>
    /\ tasks = <<>>
    /\ find_flake8_unused \in UtilsNames
    /\ TokenizerIdle
    /\ file = "none"
    /\ provider \in RaceProviders
    /\ parsers = EmptyDict
    /\ get_parser_calls = [l \in LanguageNames |-> 0]
    /\ results = <<>>
    /\ ThreadsIdle
    /\ files \in SeqsUpTo(RunFiles, MaxFiles)

\* what parse_code_files(files, parser) does to the state
parse_code_files_step ==
    LET r == parse_code_files(files, 1, parsers, get_parser_calls, provider)
    IN  /\ code_blocks' = r.code_blocks
        /\ parsers' = r.parsers
        /\ get_parser_calls' = r.calls
        /\ results' = [k \in 1..Len(r.outcomes) |->
                          [op |-> "parse_file", path |-> files[k].path,
                           cached |-> r.cached[k],
                           outcome |-> r.outcomes[k]]]
        /\ UNCHANGED <<min_size, min_similarity, duplicates, duplicate_groups,
                       legacy_groups, tokens1, tokens2, similarity, simkinds,
                       raised, file, provider, thread_vars, files, trace_vars, run_vars, token_vars>>

\* import replicheck.runner: line 11 imports find_flake8_unused from
\* replicheck.utils; when utils has no such name the import raises
\* ImportError and there is no ReplicheckRunner to call
import_runner_fails ==
    /\ phase' = "import_failed"
    /\ raised' = "ImportError"
    /\ UNCHANGED <<code_blocks, min_size, min_similarity, duplicates,
                   duplicate_groups, legacy_groups, tokens1, tokens2,
                   similarity, simkinds, parser_vars, files, trace_vars,
                   run_vars, token_vars>>

\* ReplicheckRunner.parse_code_files(files, parser)
RunnerParseCodeFiles ==
    /\ phase = "parser"
    /\ IF find_flake8_unused = "missing" THEN import_runner_fails
       ELSE /\ phase' = "parsed_runner"
            /\ parse_code_files_step

\* main.parse_code_files(files, parser)
MainParseCodeFiles ==
    /\ phase = "parser"
    /\ phase' = "parsed_main"
    /\ parse_code_files_step

NextParseFiles == RunnerParseCodeFiles \/ MainParseCodeFiles

SpecParseFiles == InitParseFiles /\ [][NextParseFiles]_vars

\* ------------------------------- a whole run: ReplicheckRunner.run, main.main
\* Reporter.__init__ raises ValueError for any other output_format
ReporterFormats == {"text", "json", "markdown"}
\* the choices of --output-format in cli.py; argparse exits with status 2
\* for any other
CliFormats == {"text", "json"}
RunFormats == {"text", "json", "xml"}

\* the min_similarity the runs are given
RunMinSimilarity == <<3, 4>>

\* F(e), with e computed once and then held as a value (an assignment to a
\* local variable)
bind(e, F(_)) == CHOOSE y \in {F(x) : x \in {e}} : TRUE

\* ts_languages[ext] in find_todo_fixme_comments
ts_languages(suffix) ==
    CASE suffix \in {".js", ".jsx"} -> "javascript"
      [] suffix \in {".ts", ".tsx"} -> "typescript"
      [] suffix = ".cs" -> "csharp"
      [] OTHER -> "none"

\* utils.find_large_files(files), from the k-th file on, with the cache of
\* its own CodeParser: the get_parser call counts it leaves.  A .ts, .tsx or
\* .cs file that can be read goes through _parse_with_tree_sitter; every
\* exception is caught.
RECURSIVE find_large_files(_, _, _, _, _)
find_large_files(file_list, k, cache, calls, prov) ==
    IF k > Len(file_list) THEN calls
    ELSE IF /\ suffix_of(file_list[k].path) \in {".ts", ".tsx", ".cs"}
            /\ read_error(file_list[k]) = "none"
    THEN \* r is what _parse_with_tree_sitter leaves
         bind(_parse_with_tree_sitter(cache, calls, file_list[k].content,
                  file_list[k].path,
                  language_of(suffix_of(file_list[k].path)), prov),
              LAMBDA r : find_large_files(file_list, k + 1, r.parsers,
                                          r.calls, prov))
    ELSE find_large_files(file_list, k + 1, cache, calls, prov)

\* utils.find_large_classes(file_path): a new CodeParser on every call; a
\* .js, .jsx, .ts, .tsx or .cs file that can be read goes through
\* _parse_with_tree_sitter; every exception is caught
find_large_classes(f, calls, prov) ==
    IF /\ suffix_of(f.path) \in {".js", ".jsx", ".ts", ".tsx", ".cs"}
       /\ read_error(f) = "none"
    THEN _parse_with_tree_sitter(EmptyDict, calls, f.content, f.path,
                                 language_of(suffix_of(f.path)), prov).calls
    ELSE calls

\* analyze_large_classes(files): find_large_classes on every file with one
\* of the six suffixes, from the k-th file on
RECURSIVE analyze_large_classes(_, _, _, _)
analyze_large_classes(file_list, k, calls, prov) ==
    IF k > Len(file_list) THEN calls
    ELSE bind(IF suffix_of(file_list[k].path) \in supported_extensions
              THEN find_large_classes(file_list[k], calls, prov)
              ELSE calls,
              LAMBDA after : analyze_large_classes(file_list, k + 1, after,
                                                   prov))

\* LargeClassDetector().find_large_classes(files), from the k-th file on:
\* one CodeParser for the whole list
RECURSIVE detector_find_large_classes(_, _, _, _, _)
detector_find_large_classes(file_list, k, cache, calls, prov) ==
    IF k > Len(file_list) THEN calls
    ELSE IF /\ suffix_of(file_list[k].path)
                  \in {".js", ".jsx", ".ts", ".tsx", ".cs"}
            /\ read_error(file_list[k]) = "none"
    THEN bind(_parse_with_tree_sitter(cache, calls, file_list[k].content,
                  file_list[k].path,
                  language_of(suffix_of(file_list[k].path)), prov),
              LAMBDA r : detector_find_large_classes(file_list, k + 1,
                                                     r.parsers, r.calls, prov))
    ELSE detector_find_large_classes(file_list, k + 1, cache, calls, prov)

\* find_todo_fixme_comments(files), from the k-th file on: get_parser is
\* called, past every cache, for each file of a grammar language that can be
\* read; every exception is caught
RECURSIVE find_todo_fixme_comments(_, _, _)
find_todo_fixme_comments(file_list, k, calls) ==
    IF k > Len(file_list) THEN calls
    ELSE bind(IF /\ ts_languages(suffix_of(file_list[k].path)) # "none"
                 /\ read_error(file_list[k]) = "none"
              THEN [calls EXCEPT
                       ![ts_languages(suffix_of(file_list[k].path))] = @ + 1]
              ELSE calls,
              LAMBDA after : find_todo_fixme_comments(file_list, k + 1, after))

\* the analyses of a run, before and after the matcher; run has one more
\* than main, cli.main has none
analyses_before(entry) ==
    IF entry = "cli" THEN <<>>
    ELSE <<"analyze_complexity", "analyze_large_files",
           "analyze_large_classes">>
analyses_after(entry) ==
    CASE entry = "runner" -> <<"analyze_unused_imports_vars",
                               "find_todo_fixme_comments",
                               "analyze_bugs_and_safety">>
      [] entry = "main" -> <<"analyze_unused_imports_vars",
                             "find_todo_fixme_comments">>
      [] OTHER -> <<>>

\* a collaborator of the run that may raise
FailingSteps == {"none", "analyze_complexity", "find_todo_fixme_comments",
                 "generate_report"}

\* the calls of a run on an existing root in program order, with one
\* parse_file call per file; cli.main returns 0 after find_files when there
\* is no file, and after the parsing when there is no block
steps_of(entry, parsed) ==
    <<"CodeParser", "DuplicateDetector", "Reporter", "find_files">>
        \o [k \in 1..Len(parsed.outcomes) |-> "parse_file"]
        \o (IF entry = "cli" /\ parsed.code_blocks = <<>> THEN <<>>
            ELSE analyses_before(entry)
                     \o <<"find_duplicates">>
                     \o analyses_after(entry)
                     \o <<"generate_report">>)

\* the first k steps
prefix(steps, k) == [n \in 1..k |-> steps[n]]

\* try: ... return 0 / except Exception: return 1 -- the calls made and the
\* value returned, when the step named in raising (if any) raises
run_try(steps, raising) ==
    LET at == {k \in 1..Len(steps) : steps[k] \in raising}
    IN  IF at = {} THEN [call_log |-> steps, exit_status |-> 0]
        ELSE [call_log |-> prefix(steps, CHOOSE k \in at : \A l \in at : k <= l),
              exit_status |-> 1]

\* a variant that returns 0 after an exception too
run_try_zero(steps, raising) ==
    LET r == run_try(steps, raising)
    IN  [call_log |-> r.call_log, exit_status |-> 0]

\* the matcher of the entry point on the blocks parsed: Strategy B in run,
\* Strategy A in main and in cli.main
matcher_result(entry, blocks, ms, msim) ==
    IF entry = "runner" THEN find_duplicates_B(blocks, ms)
    ELSE find_duplicates_A(blocks, ms, msim)

\* a variant of the parsing stage that stops at the first file that fails
parse_stage_abort(file_list, prov) ==
    parse_code_files_abort(file_list, 1, EmptyDict,
                           [l \in LanguageNames |-> 0], prov)

\* code_blocks = parse_code_files(files, parser), on the run's new CodeParser
parse_stage(file_list, prov) ==
    parse_code_files(file_list, 1, EmptyDict, [l \in LanguageNames |-> 0], prov)

\* the get_parser call counts after the analyses the run got to: the steps
\* in failing are stubs that raise when called
analysis_calls(log, failing, file_list, calls, prov) ==
    LET ran(step) == /\ \E k \in 1..Len(log) : log[k] = step
                     /\ step \notin failing
    IN  bind(IF ran("analyze_large_files")
             THEN find_large_files(file_list, 1, EmptyDict, calls, prov)
             ELSE calls,
             LAMBDA after_files :
        bind(IF ran("analyze_large_classes")
             THEN analyze_large_classes(file_list, 1, after_files, prov)
             ELSE after_files,
             LAMBDA after_classes :
                 IF ran("find_todo_fixme_comments")
                 THEN find_todo_fixme_comments(file_list, 1, after_classes)
                 ELSE after_classes))

\* is_group_format in _generate_json_report
is_group_format(dups) ==
    /\ dups # <<>>
    /\ has_key(dups[1], "num_duplicates")
    /\ has_key(dups[1], "locations")

\* generate_report(duplicates, ...): what _convert_legacy_duplicates_to_group
\* returns when the JSON report calls it (<<>> when it is not called)
report_conversion(format, dups) ==
    IF format = "json" /\ ~is_group_format(dups)
    THEN convert_legacy_duplicates_to_group(dups)
    ELSE <<>>

\* run() / main(): what it returns, the calls it makes, and what its parser
\* and its detector are left with; analyze_unused_imports_vars raises
\* ImportError when replicheck.utils has no find_flake8_unused
run_of(entry, exists, format, failing, flake8, file_list, prov, ms, msim) ==
    bind(parse_stage(file_list, prov), LAMBDA parsed :
    bind(matcher_result(entry, parsed.code_blocks, ms, msim), LAMBDA found :
    LET raising == (IF format \in ReporterFormats THEN {} ELSE {"Reporter"})
                   \cup ({failing} \ {"none"})
                   \cup (IF flake8 = "missing"
                         THEN {"analyze_unused_imports_vars"} ELSE {})
                   \cup (IF exception_in(found) = "none" THEN {}
                         ELSE {"find_duplicates"})
        r == IF exists THEN run_try(steps_of(entry, parsed), raising)
             ELSE [call_log |-> <<>>, exit_status |-> 1]
        reached(step) == \E k \in 1..Len(r.call_log) : r.call_log[k] = step
    IN  [exit_status |-> r.exit_status,
         call_log |-> r.call_log,
         built |-> reached("DuplicateDetector"),
         parsed |-> reached("find_files"),
         tried |-> reached("find_duplicates"),
         matched |-> reached("find_duplicates")
                        /\ "find_duplicates" \notin raising,
         reported |-> reached("generate_report")
                         /\ "generate_report" \notin raising,
         parse |-> parsed,
         calls |-> analysis_calls(r.call_log, raising, file_list,
                                  parsed.calls, prov),
         found |-> found]))

\* a root path that exists or not, and the files find_files returns when it
\* is called
InitRun ==
    /\ MatcherIdle
    /\ TokenizerIdle
    /\ file = "none"
    /\ provider \in RaceProviders
    /\ parsers = EmptyDict
    /\ get_parser_calls = [l \in LanguageNames |-> 0]
    /\ results = <<>>
    /\ ThreadsIdle
    /\ files \in SeqsUpTo(RunFiles, MaxFiles)
    /\ root_exists \in BOOLEAN
    /\ output_format = "text"
    /\ failing_step = "none"
    /\ exit_status = "none"
    /\ call_log = <<>>
    /\ tasks = <<>>
    /\ find_flake8_unused \in UtilsNames

\* what the run r, given output_format and with the stub named in failing
\* raising, does to its parser, its detector and the blocks, up to and
\* including the matcher and the analyses
run_writes(r, entry, ms, msim, format, failing) ==
    /\ output_format' = format
    /\ failing_step' = failing
    /\ min_size' = IF r.built THEN ms ELSE min_size
    /\ min_similarity' = IF r.built THEN msim ELSE min_similarity
    /\ IF r.parsed
       THEN /\ parsers' = r.parse.parsers
            /\ get_parser_calls' = r.calls
            /\ results' = [k \in 1..Len(r.parse.outcomes) |->
                              [op |-> "parse_file", path |-> files[k].path,
                               cached |-> r.parse.cached[k],
                               outcome |-> r.parse.outcomes[k]]]
       ELSE UNCHANGED <<parsers, get_parser_calls, results>>
    /\ code_blocks' = IF ~r.parsed THEN code_blocks
                      ELSE IF r.matched /\ entry # "runner"
                      THEN sort_by_size(r.parse.code_blocks)
                      ELSE r.parse.code_blocks
    /\ duplicates' = IF r.matched /\ entry # "runner" THEN r.found
                     ELSE duplicates
    /\ duplicate_groups' = IF r.matched /\ entry = "runner" THEN r.found
                           ELSE duplicate_groups
    /\ similarity_calls' =
          IF r.matched /\ entry # "runner"
          THEN calculate_similarity_calls(r.parse.code_blocks, ms, msim)
          ELSE similarity_calls
    /\ raised' = IF r.tried THEN exception_in(r.found) ELSE raised
    /\ UNCHANGED <<tokens1, tokens2, similarity, simkinds,
                   file, provider, thread_vars, files, root_exists,
                   find_flake8_unused, token_vars>>

\* what the run r, which does not wait for another thread, does to the state
run_step(r, entry, ms, msim, format, failing) ==
    /\ run_writes(r, entry, ms, msim, format, failing)
    /\ exit_status' = r.exit_status
    /\ call_log' = r.call_log
    /\ legacy_groups' = IF r.reported
                        THEN report_conversion(format, r.found)
                        ELSE legacy_groups
    /\ UNCHANGED tasks

\* the language groups BugNSafetyAnalyzer.analyze submits a task for
bns_tasks(file_list) ==
    {g \in {"python", "js", "cs"} :
        \E k \in 1..Len(file_list) :
            suffix_of(file_list[k].path) \in
                (CASE g = "python" -> {".py"}
                   [] g = "js" -> {".js", ".jsx", ".ts", ".tsx"}
                   [] OTHER -> {".cs"})}

\* the language groups in the order BugNSafetyAnalyzer.analyze submits them
BnsGroups == <<"python", "js", "cs">>

\* ReplicheckRunner(path=..., min_size=ms, ...).run(), up to the point where
\* BugNSafetyAnalyzer.analyze is about to submit its first task to the thread
\* pool; the whole run when it ends before that or has no task to submit
RunnerRun ==
    /\ phase = "parser"
    /\ IF find_flake8_unused = "missing" THEN import_runner_fails
       ELSE
       \E ms \in 1..MaxMinSize, format \in RunFormats, failing \in FailingSteps :
       \E r \in {run_of("runner", root_exists, format, failing,
                        find_flake8_unused, files, provider, ms,
                        RunMinSimilarity)} :
          IF /\ \E k \in 1..Len(r.call_log) :
                   r.call_log[k] = "analyze_bugs_and_safety"
             /\ bns_tasks(files) # {}
          THEN /\ phase' = "waiting_runner"
               /\ run_writes(r, "runner", ms, RunMinSimilarity, format, failing)
               /\ call_log' = prefix(r.call_log, Len(r.call_log) - 1)
               /\ tasks' = <<>>
               /\ UNCHANGED <<exit_status, legacy_groups>>
          ELSE /\ phase' = "ran_runner"
               /\ run_step(r, "runner", ms, RunMinSimilarity, format, failing)

\* tasks.append(executor.submit(...)): the next group with files, in the
\* order of the three if statements, is handed to the pool
BnsSubmit ==
    /\ phase = "waiting_runner"
    /\ \E n \in 1..Len(BnsGroups) :
          /\ BnsGroups[n] \in bns_tasks(files) \ DOMAIN tasks
          /\ \A m \in 1..(n - 1) :
                BnsGroups[m] \in bns_tasks(files) => BnsGroups[m] \in DOMAIN tasks
          /\ tasks' = [g \in DOMAIN tasks \cup {BnsGroups[n]} |->
                          IF g \in DOMAIN tasks THEN tasks[g] ELSE "running"]
    /\ UNCHANGED <<matcher_vars, parser_vars, files, trace_vars, root_exists,
                   output_format, failing_step, exit_status, call_log,
                   find_flake8_unused, token_vars>>

\* a thread of the pool runs one task to its end: _analyze_python,
\* _analyze_js or _analyze_cs returns its findings
BnsWorker ==
    /\ phase = "waiting_runner"
    /\ \E g \in DOMAIN tasks :
          /\ tasks[g] = "running"
          /\ tasks' = [tasks EXCEPT ![g] = "done"]
    /\ UNCHANGED <<matcher_vars, parser_vars, files, trace_vars, root_exists,
                   output_format, failing_step, exit_status, call_log,
                   find_flake8_unused, token_vars>>

\* the end of ReplicheckRunner.run(): every task was submitted and
\* as_completed has handed over every one of them, generate_report runs and
\* run returns
RunnerRunReport ==
    /\ phase = "waiting_runner"
    /\ DOMAIN tasks = bns_tasks(files)
    /\ \A g \in DOMAIN tasks : tasks[g] = "done"
    /\ phase' = "ran_runner"
    /\ call_log' = Append(call_log, "generate_report")
    /\ exit_status' = IF failing_step = "generate_report" THEN 1 ELSE 0
    /\ legacy_groups' = IF failing_step = "generate_report" THEN legacy_groups
                        ELSE report_conversion(output_format, duplicate_groups)
    /\ UNCHANGED <<code_blocks, min_size, min_similarity, duplicates,
                   duplicate_groups, tokens1, tokens2, similarity, simkinds,
                   raised, parser_vars, files, trace_vars, root_exists,
                   output_format, failing_step, tasks, find_flake8_unused,
                   token_vars>>

\* main(path, min_similarity, min_size, ...)
MainMain ==
    /\ phase = "parser"
    /\ phase' = "ran_main"
    /\ \E ms \in 1..MaxMinSize, format \in RunFormats, failing \in FailingSteps :
       \E r \in {run_of("main", root_exists, format, failing,
                        find_flake8_unused, files, provider, ms,
                        RunMinSimilarity)} :
          run_step(r, "main", ms, RunMinSimilarity, format, failing)

\* cli.main(), with --min-sim, --min-size and --output-format on the command
\* line: parse_args ends the process with status 2 for a format that is not
\* among its choices
CliMain ==
    /\ phase = "parser"
    /\ phase' = "ran_cli"
    /\ \E format \in RunFormats :
          IF format \in CliFormats
          THEN \E ms \in 1..MaxMinSize, failing \in FailingSteps :
               \E r \in {run_of("cli", root_exists, format, failing,
                                find_flake8_unused, files, provider, ms,
                                RunMinSimilarity)} :
                  run_step(r, "cli", ms, RunMinSimilarity, format, failing)
          ELSE /\ output_format' = format
               /\ exit_status' = 2
               /\ raised' = "SystemExit"
               /\ UNCHANGED <<code_blocks, min_size, min_similarity,
                              duplicates, duplicate_groups, legacy_groups,
                              tokens1, tokens2, similarity, simkinds,
                              parser_vars, files, trace_vars, root_exists,
                              failing_step, call_log, tasks,
                              find_flake8_unused, token_vars>>

\* what a utils analysis function gives: it returns its list of findings
returns_list(op, findings) == [op |-> op, outcome |-> Return(findings)]

\* what a method of a detector class gives: it has no return statement, so
\* it returns None, and leaves its list of findings in self.results
sets_results(op, findings) ==
    [op |-> op, outcome |-> Return(None), self_results |-> findings]

\* an analysis called on its own on the file list: the get_parser calls it
\* makes and what the call gives; with the default thresholds no file and no
\* class of the model is large, and the files hold no TODO or FIXME comment,
\* so the list of findings is empty
analysis_step(call, calls) ==
    /\ phase' = "analysed"
    /\ get_parser_calls' = calls
    /\ results' = <<call>>
    /\ UNCHANGED <<code_blocks, min_size, min_similarity, duplicates,
                   duplicate_groups, legacy_groups, tokens1, tokens2,
                   similarity, simkinds, raised, file, provider, parsers,
                   thread_vars, files, trace_vars, run_vars, token_vars>>

\* utils.find_large_files(files)
FindLargeFiles ==
    /\ phase = "parser"
    /\ analysis_step(returns_list("find_large_files", <<>>),
           find_large_files(files, 1, EmptyDict, get_parser_calls, provider))

\* utils.find_large_classes(file_path), on one file of the list
FindLargeClasses ==
    /\ phase = "parser"
    /\ \E k \in 1..Len(files) :
        analysis_step(returns_list("find_large_classes", <<>>),
            find_large_classes(files[k], get_parser_calls, provider))

\* utils.find_todo_fixme_comments(files)
FindTodoFixmeComments ==
    /\ phase = "parser"
    /\ analysis_step(returns_list("find_todo_fixme_comments", <<>>),
           find_todo_fixme_comments(files, 1, get_parser_calls))

\* LargeFileDetector().find_large_files(files): the same files reach
\* _parse_with_tree_sitter as in utils.find_large_files; the method ends
\* with self.results = large_files
LargeFileDetectorFindLargeFiles ==
    /\ phase = "parser"
    /\ analysis_step(sets_results("LargeFileDetector.find_large_files", <<>>),
           find_large_files(files, 1, EmptyDict, get_parser_calls, provider))

\* LargeClassDetector().find_large_classes(files); the method ends with
\* self.results = all_results
LargeClassDetectorFindLargeClasses ==
    /\ phase = "parser"
    /\ analysis_step(sets_results("LargeClassDetector.find_large_classes", <<>>),
           detector_find_large_classes(files, 1, EmptyDict, get_parser_calls,
                                       provider))

\* TodoFixmeDetector().find_todo_fixme_comments(files): get_parser is called
\* for the same files as in utils.find_todo_fixme_comments; the method ends
\* with self.results = results
TodoFixmeDetectorFindTodoFixmeComments ==
    /\ phase = "parser"
    /\ analysis_step(
           sets_results("TodoFixmeDetector.find_todo_fixme_comments", <<>>),
           find_todo_fixme_comments(files, 1, get_parser_calls))

NextRun ==
    \/ RunnerRun \/ BnsSubmit \/ BnsWorker \/ RunnerRunReport \/ MainMain
    \/ CliMain
    \/ FindLargeFiles \/ FindLargeClasses \/ FindTodoFixmeComments
    \/ LargeFileDetectorFindLargeFiles \/ LargeClassDetectorFindLargeClasses
    \/ TodoFixmeDetectorFindTodoFixmeComments

SpecRun == InitRun /\ [][NextRun]_vars

\* ------------------------------ the Python tokenizer: _tokenize_python
\* the nodes of a syntax tree as ast.parse builds them; children holds what
\* ast.iter_child_nodes yields, in field order
Name(id) == [type |-> "Name", id |-> id, children |-> <<>>]
\* a literal, with its spelling in the source; ast.parse stores its value
Constant(text) == [type |-> "Constant", text |-> text, children |-> <<>>]
Add == [type |-> "Add", children |-> <<>>]
arg(name) == [type |-> "arg", arg |-> name, children |-> <<>>]
arguments(args) == [type |-> "arguments", children |-> args]
BinOp(left, right) == [type |-> "BinOp", children |-> <<left, Add, right>>]
Call(func, args) == [type |-> "Call", children |-> <<func>> \o args]
Expr(value) == [type |-> "Expr", children |-> <<value>>]
FunctionDef(name, args, body) ==
    [type |-> "FunctionDef", name |-> name,
     children |-> <<arguments(args)>> \o body]

\* the value ast.parse stores in Constant.value for a literal spelled text
literal_value(text) ==
    CASE text = "1" -> [type |-> "int", int |-> 1]
      [] text = "0x1" -> [type |-> "int", int |-> 1]
      [] text = "1.0" -> [type |-> "float", whole |-> 1, fraction |-> 0]
      [] text = "1.00" -> [type |-> "float", whole |-> 1, fraction |-> 0]
      [] text = "'a'" -> [type |-> "str", str |-> "a"]
      [] text = "\"a\"" -> [type |-> "str", str |-> "a"]
      [] text = "'1'" -> [type |-> "str", str |-> "1"]

\* str(child.value)
str(value) ==
    CASE value.type = "int" -> ToString(value.int)
      [] value.type = "float" ->
            ToString(value.whole) \o "." \o ToString(value.fraction)
      [] value.type = "str" -> value.str

\* what one node of the walk appends to tokens
token_of(child) ==
    IF child.type = "Name" THEN <<child.id>>
    ELSE IF child.type = "Constant" THEN <<str(literal_value(child.text))>>
    ELSE <<>>

\* ast.walk(node): todo = deque([node]); while todo: node = todo.popleft();
\* todo.extend(iter_child_nodes(node)); yield node
RECURSIVE ast_walk(_)
ast_walk(todo) ==
    IF todo = <<>> THEN <<>>
    ELSE <<Head(todo)>> \o ast_walk(Tail(todo) \o Head(todo).children)

RECURSIVE tokens_of_nodes(_)
tokens_of_nodes(nodes) ==
    IF nodes = <<>> THEN <<>>
    ELSE token_of(Head(nodes)) \o tokens_of_nodes(Tail(nodes))

_tokenize_python(node) == tokens_of_nodes(ast_walk(<<node>>))

\* tokens = [node.name]; tokens.extend(self._tokenize_python(node))
python_tokens(node) == <<node.name>> \o _tokenize_python(node)

\* the syntax trees of the functions under test
PythonNames == {"a", "b"}
Spellings == {"1", "0x1", "1.0", "1.00", "'a'", "\"a\"", "'1'"}
Atoms == {Name(id) : id \in PythonNames} \cup {Constant(t) : t \in Spellings}
Calls_ == {Call(Name(f), <<x>>) : f \in PythonNames, x \in Atoms}
Operands == Atoms \cup Calls_
Exprs == Operands \cup {BinOp(x, y) : x \in Operands, y \in Operands}
Bodies ==
    {<<Expr(e)>> : e \in Exprs}
        \cup {<<FunctionDef("g", <<>>, <<Expr(x)>>), Expr(y)>> :
                  x \in Atoms, y \in Atoms}
MaxArgs == 1
FunctionDefs ==
    {FunctionDef("f", [k \in 1..n |-> arg("p")], body) :
        n \in 0..MaxArgs, body \in Bodies}

InitTokenizePython ==
    /\ MatcherIdle
    /\ RunIdle
    /\ file = "none"
    /\ provider = "none"
    /\ parsers = EmptyDict
    /\ get_parser_calls = EmptyDict
    /\ results = <<>>
    /\ ThreadsIdle
    /\ files = <<>>
    /\ syntax_tree \in FunctionDefs
    /\ source_text = "none"
    /\ emitted = "none"

\* _parse_python line 48-49 on the function definition
TokenizePython ==
    /\ phase = "parser"
    /\ phase' = "tokenized_python"
    /\ emitted' = python_tokens(syntax_tree)
    /\ UNCHANGED <<code_blocks, min_size, min_similarity, duplicates,
                   duplicate_groups, legacy_groups, tokens1, tokens2,
                   similarity, simkinds, raised, parser_vars, files,
                   trace_vars, run_vars, syntax_tree, source_text>>

NextTokenizePython == TokenizePython

SpecTokenizePython == InitTokenizePython /\ [][NextTokenizePython]_vars

\* ----------------- the tree-sitter tokenizer: _tokenize_tree_sitter_node
\* content is a str, held as the sequence of its characters; the parser is
\* given bytes(content, "utf8"), and the byte offsets of its nodes count
\* the bytes of that encoding
Characters == {"a", "é", "1", "'", "#", " "}
utf8_length(c) == IF c = "é" THEN 2 ELSE 1
RECURSIVE byte_length(_)
byte_length(chars) ==
    IF chars = <<>> THEN 0
    ELSE utf8_length(Head(chars)) + byte_length(Tail(chars))

\* the str made of the characters
RECURSIVE text_of(_)
text_of(chars) ==
    IF chars = <<>> THEN "" ELSE Head(chars) \o text_of(Tail(chars))

\* content[start:end] for 0 <= start, 0 <= end: a slice by character index
slice(content, start, end) ==
    LET stop == IF end > Len(content) THEN Len(content) ELSE end
    IN  SubSeq(content, start + 1, stop)

\* token_text.strip() is empty
strips_to_empty(chars) == \A k \in 1..Len(chars) : chars[k] = " "

identifier_types == {"identifier", "property_identifier",
                     "shorthand_property_identifier", "type_identifier"}
literal_types == {"string", "number"}

\* token_text = content[start_byte:end_byte]
token_text(n, content) == slice(content, n.start_byte, n.end_byte)

\* extract_tokens(n): what the node appends, then what its children append
RECURSIVE extract_tokens(_, _)
RECURSIVE extract_children(_, _)
extract_tokens(n, content) ==
    (IF n.type \in identifier_types \cup literal_types
        /\ ~strips_to_empty(token_text(n, content))
     THEN <<text_of(token_text(n, content))>>
     ELSE <<>>)
        \o extract_children(n.children, content)
extract_children(nodes, content) ==
    IF nodes = <<>> THEN <<>>
    ELSE extract_tokens(Head(nodes), content)
         \o extract_children(Tail(nodes), content)

_tokenize_tree_sitter_node(node, content) == extract_tokens(node, content)

\* the lexemes of a source text: identifiers, literals and comments
Lexeme(type, chars) == [type |-> type, chars |-> chars]
Lexemes ==
    {Lexeme(t, c) : t \in identifier_types, c \in {<<"a">>, <<"é">>}}
        \cup {Lexeme("string", <<"'", c, "'">>) : c \in {"a", "é"}}
        \cup {Lexeme("number", <<"1">>)}
        \cup {Lexeme("comment", <<"#", c>>) : c \in {"a", "é"}}
MaxLexemes == 3

\* the text of the lexemes, one space between two of them
RECURSIVE content_of(_)
content_of(lexemes) ==
    IF lexemes = <<>> THEN <<>>
    ELSE IF Len(lexemes) = 1 THEN Head(lexemes).chars
    ELSE Head(lexemes).chars \o <<" ">> \o content_of(Tail(lexemes))

\* the nodes parser.parse gives the lexemes, the first of them at the byte
\* offset start
TreeSitterNode(type, start_byte, end_byte, children) ==
    [type |-> type, start_byte |-> start_byte, end_byte |-> end_byte,
     children |-> children]
RECURSIVE leaves_of(_, _)
leaves_of(lexemes, start) ==
    IF lexemes = <<>> THEN <<>>
    ELSE LET end == start + byte_length(Head(lexemes).chars)
         IN  <<TreeSitterNode(Head(lexemes).type, start, end, <<>>)>>
             \o leaves_of(Tail(lexemes), end + 1)

\* the captured node: the lexemes are its children, or the lexemes after the
\* first are the children of a child
tree_of(lexemes, nested) ==
    LET leaves == leaves_of(lexemes, 0)
        end == byte_length(content_of(lexemes))
    IN  IF nested /\ Len(leaves) >= 2
        THEN TreeSitterNode("function_declaration", 0, end,
                 <<Head(leaves),
                   TreeSitterNode("statement_block", leaves[2].start_byte,
                                  end, Tail(leaves))>>)
        ELSE TreeSitterNode("function_declaration", 0, end, leaves)

InitTokenizeTreeSitter ==
    /\ MatcherIdle
    /\ RunIdle
    /\ file = "none"
    /\ provider = "none"
    /\ parsers = EmptyDict
    /\ get_parser_calls = EmptyDict
    /\ results = <<>>
    /\ ThreadsIdle
    /\ files = <<>>
    /\ \E lexemes \in SeqsUpTo(Lexemes, MaxLexemes), nested \in BOOLEAN :
          /\ syntax_tree = tree_of(lexemes, nested)
          /\ source_text = content_of(lexemes)
    /\ emitted = "none"

\* tokens = self._tokenize_tree_sitter_node(node, content)
TokenizeTreeSitterNode ==
    /\ phase = "parser"
    /\ phase' = "tokenized_tree_sitter"
    /\ emitted' = _tokenize_tree_sitter_node(syntax_tree, source_text)
    /\ UNCHANGED <<code_blocks, min_size, min_similarity, duplicates,
                   duplicate_groups, legacy_groups, tokens1, tokens2,
                   similarity, simkinds, raised, parser_vars, files,
                   trace_vars, run_vars, syntax_tree, source_text>>

NextTokenizeTreeSitter == TokenizeTreeSitterNode

SpecTokenizeTreeSitter ==
    InitTokenizeTreeSitter /\ [][NextTokenizeTreeSitter]_vars

\* ------------------------------------------------------------- the claims
\* what the claims say of the inputs, stated from the blocks themselves
Positions == 1..Len(code_blocks)
TokensAt(i) == code_blocks[i].tokens
LocAt(i) == code_blocks[i].location
SameTokens(i, j) ==
    /\ Len(TokensAt(i)) = Len(TokensAt(j))
    /\ \A k \in 1..Len(TokensAt(i)) : TokensAt(i)[k] = TokensAt(j)[k]
TokenSet(i) == {TokensAt(i)[k] : k \in 1..Len(TokensAt(i))}
\* the Jaccard score of blocks i and j is >= (resp. <) the fraction q
JaccardAtLeast(i, j, q) ==
    Cardinality(TokenSet(i) \cap TokenSet(j)) * q[2]
        >= q[1] * Cardinality(TokenSet(i) \cup TokenSet(j))
JaccardIs(i, j, q) ==
    Cardinality(TokenSet(i) \cap TokenSet(j)) * q[2]
        = q[1] * Cardinality(TokenSet(i) \cup TokenSet(j))
\* abs(size_i - size_j) / max(size_i, size_j) > 1 - q, for sizes >= 1
SizeRatioAbove(i, j, q) ==
    Abs(Len(TokensAt(i)) - Len(TokensAt(j))) * q[2]
        > (q[2] - q[1]) * Max(Len(TokensAt(i)), Len(TokensAt(j)))
LocsOfMatch(m) == {m.block1, m.block2}
LocsOfGroup(g) == {g.locations[k] : k \in 1..Len(g.locations)}
MatchesOf(i, j) ==
    {k \in 1..Len(duplicates) : LocsOfMatch(duplicates[k]) = {LocAt(i), LocAt(j)}}
InSameGroup(i, j) ==
    \E k \in 1..Len(duplicate_groups) :
        {LocAt(i), LocAt(j)} \subseteq LocsOfGroup(duplicate_groups[k])
RanA == phase \in {"matchedA", "reported"}
RanB == phase = "matchedB"

\* C1: in both matchers min_size is an inclusive lower bound: no block with
\* fewer than min_size tokens is a location of a returned match or group, and
\* two blocks with the same token sequence of exactly min_size tokens are
\* reported as duplicates of each other.
C1_MinSizeInclusive ==
    /\ RanA =>
         /\ \A i \in Positions : Len(TokensAt(i)) < min_size =>
               \A k \in 1..Len(duplicates) : LocAt(i) \notin LocsOfMatch(duplicates[k])
         /\ \A i, j \in Positions :
               (i # j /\ SameTokens(i, j) /\ Len(TokensAt(i)) = min_size)
                  => MatchesOf(i, j) # {}
    /\ RanB =>
         /\ \A i \in Positions : Len(TokensAt(i)) < min_size =>
               \A k \in 1..Len(duplicate_groups) :
                   LocAt(i) \notin LocsOfGroup(duplicate_groups[k])
         /\ \A i, j \in Positions :
               (i # j /\ SameTokens(i, j) /\ Len(TokensAt(i)) = min_size)
                  => InSameGroup(i, j)

\* either matcher has run on two equal blocks of exactly min_size tokens and
\* a third block below min_size, and has reported the two
C1_Witness ==
    /\ RanA \/ RanB
    /\ \E i, j, k \in Positions :
          /\ i # j /\ SameTokens(i, j) /\ Len(TokensAt(i)) = min_size
          /\ Len(TokensAt(k)) < min_size
    /\ \/ RanA /\ Len(duplicates) = 1
       \/ RanB /\ Len(duplicate_groups) = 1

\* C2: Strategy B: when exactly two blocks share a token sequence of length
\* >= min_size, lie in two different files, and every other block's sequence
\* occurs only once, the result is exactly one group, with similarity 1.0,
\* num_duplicates 2, cross_file true and size the shared token count.
OnePairOnly(i, j) ==
    /\ i # j /\ SameTokens(i, j)
    /\ Len(TokensAt(i)) >= min_size
    /\ LocAt(i).file # LocAt(j).file
    /\ \A k \in Positions \ {i, j} :
          \A l \in Positions \ {k} : ~SameTokens(k, l)
C2_ExactPairOneGroup ==
    RanB => \A i, j \in Positions : OnePairOnly(i, j) =>
        /\ Len(duplicate_groups) = 1
        /\ duplicate_groups[1].similarity = <<1, 1>>
        /\ duplicate_groups[1].num_duplicates = 2
        /\ duplicate_groups[1].cross_file = TRUE
        /\ duplicate_groups[1].size = Len(TokensAt(i))

\* two equal blocks in two files next to a third, different block that is
\* itself long enough to be keyed
C2_Witness ==
    /\ RanB
    /\ Len(code_blocks) = 3
    /\ \E i, j \in Positions : OnePairOnly(i, j)
    /\ \A k \in Positions : Len(TokensAt(k)) >= min_size
    /\ Len(duplicate_groups) = 1

\* C3: Strategy B: two input blocks are in the same returned group if and
\* only if both have at least min_size tokens and their token sequences are
\* equal element by element; a different order or a different repetition of
\* the same tokens never shares a group.
C3_SameGroupIffSameSequence ==
    RanB => \A i, j \in Positions : i # j =>
        (InSameGroup(i, j)
            <=> (/\ Len(TokensAt(i)) >= min_size
                 /\ Len(TokensAt(j)) >= min_size
                 /\ SameTokens(i, j)))

\* a group next to a block of at least min_size tokens that holds the same
\* tokens as the group's blocks, repeated differently
C3_Witness ==
    /\ RanB
    /\ \E i, j, k \in Positions :
          /\ i # j /\ InSameGroup(i, j)
          /\ TokenSet(k) = TokenSet(i)
          /\ Len(TokensAt(k)) >= min_size
          /\ ~SameTokens(i, k)
          /\ ~InSameGroup(i, k)

\* C4 (as claimed): Strategy A: the size-ratio short-circuit only skips pairs
\* that cannot reach the threshold, so no match is lost to it: every two
\* blocks of at least min_size tokens whose Jaccard score is >= min_similarity
\* are emitted as a match, as they would be without the short-circuit.
C4_ShortCircuitLosesNoMatch ==
    RanA => \A i, j \in Positions :
        (/\ i # j
         /\ Len(TokensAt(i)) >= min_size
         /\ Len(TokensAt(j)) >= min_size
         /\ JaccardAtLeast(i, j, min_similarity))
            => MatchesOf(i, j) # {}

\* the test of detector.py:57 is true for the blocks at positions i and j,
\* both of at least one token: the inner loop skips the pair
SkippedBySizeRatio(i, j) ==
    size_ratio_skip(Len(TokensAt(i)), Len(TokensAt(j)), min_similarity)

\* C5: Strategy A: for two distinct positions whose blocks have at least
\* min_size tokens and are not skipped by the size-ratio test, exactly one
\* match is emitted when the Jaccard score is >= min_similarity (equality
\* included) and none otherwise; the match carries that score and the two
\* blocks' locations.
C5_OneMatchPerReachingPair ==
    RanA => \A i, j \in Positions :
        (/\ i # j
         /\ Len(TokensAt(i)) >= min_size
         /\ Len(TokensAt(j)) >= min_size
         /\ ~SkippedBySizeRatio(i, j))
            => IF JaccardAtLeast(i, j, min_similarity)
               THEN /\ Cardinality(MatchesOf(i, j)) = 1
                    /\ \A k \in MatchesOf(i, j) :
                          /\ JaccardIs(i, j, duplicates[k].similarity)
                          /\ duplicates[k].similarity[2] > 0
               ELSE MatchesOf(i, j) = {}

\* at min_similarity 2/3: a pair that is not skipped and scores exactly 2/3
\* has its one match, a pair that is not skipped and scores less has none,
\* and a pair of blocks of at least min_size tokens is skipped
C5_Witness ==
    /\ RanA
    /\ min_similarity = <<2, 3>>
    /\ \E i, j \in Positions :
          /\ i # j
          /\ Len(TokensAt(i)) >= min_size /\ Len(TokensAt(j)) >= min_size
          /\ ~SkippedBySizeRatio(i, j)
          /\ JaccardIs(i, j, <<2, 3>>)
          /\ Cardinality(MatchesOf(i, j)) = 1
    /\ \E i, j \in Positions :
          /\ i # j
          /\ Len(TokensAt(i)) >= min_size /\ Len(TokensAt(j)) >= min_size
          /\ ~SkippedBySizeRatio(i, j)
          /\ ~JaccardAtLeast(i, j, min_similarity)
          /\ MatchesOf(i, j) = {}
    /\ \E i, j \in Positions :
          /\ i # j
          /\ Len(TokensAt(i)) >= min_size /\ Len(TokensAt(j)) >= min_size
          /\ SkippedBySizeRatio(i, j)

\* C6: every duplicate group carries a correct cross_file flag: it is true if
\* and only if the group's locations name more than one distinct file, in
\* every group of Strategy B and in every group the reporter builds from a
\* Strategy A pair.
FilesOfGroup(g) == {g.locations[k].file : k \in 1..Len(g.locations)}
C6_CrossFileFlag ==
    /\ \A k \in 1..Len(duplicate_groups) :
          duplicate_groups[k].cross_file
              <=> Cardinality(FilesOfGroup(duplicate_groups[k])) > 1
    /\ \A k \in 1..Len(legacy_groups) :
          legacy_groups[k].cross_file
              <=> Cardinality(FilesOfGroup(legacy_groups[k])) > 1

\* the reporter has converted a same-file pair and a cross-file pair
C6_Witness ==
    /\ phase = "reported"
    /\ \E k \in 1..Len(legacy_groups) : legacy_groups[k].cross_file
    /\ \E k \in 1..Len(legacy_groups) : ~legacy_groups[k].cross_file

\* C7: every group returned by Strategy B has
\* num_duplicates = len(locations) >= 2, and a block whose token sequence
\* matches no other block is in no group.
C7_GroupsHaveTwoOrMore ==
    RanB =>
        /\ \A k \in 1..Len(duplicate_groups) :
              /\ duplicate_groups[k].num_duplicates
                    = Len(duplicate_groups[k].locations)
              /\ Len(duplicate_groups[k].locations) >= 2
        /\ \A i \in Positions :
              (\A j \in Positions \ {i} : ~SameTokens(i, j))
                  => \A k \in 1..Len(duplicate_groups) :
                        LocAt(i) \notin LocsOfGroup(duplicate_groups[k])

\* a group of two next to a block of at least min_size tokens that matches
\* no other block
C7_Witness ==
    /\ RanB
    /\ Len(duplicate_groups) = 1
    /\ duplicate_groups[1].num_duplicates = 2
    /\ \E i \in Positions :
          /\ Len(TokensAt(i)) >= min_size
          /\ \A j \in Positions \ {i} : ~SameTokens(i, j)

\* C8: Strategy B: inside every returned group the locations are in
\* first-seen order, the relative order of their blocks in the input list.
InputPosition(loc) == CHOOSE i \in Positions : LocAt(i) = loc
C8_FirstSeenOrder ==
    RanB => \A k \in 1..Len(duplicate_groups) :
        LET locs == duplicate_groups[k].locations
        IN  /\ \A n \in 1..Len(locs) : \E i \in Positions : LocAt(i) = locs[n]
            /\ \A m, n \in 1..Len(locs) :
                  m < n => InputPosition(locs[m]) < InputPosition(locs[n])

\* a group of three members has been returned
C8_Witness ==
    /\ RanB
    /\ \E k \in 1..Len(duplicate_groups) :
          Len(duplicate_groups[k].locations) = 3

\* C9 (as claimed): calculate_similarity(a, a) is 1.0 for every token list a.
Returned == phase = "sim" /\ similarity # "none"
C9_SelfSimilarityIsOne ==
    (Returned /\ tokens1 = tokens2) => similarity = <<1, 1>>

\* C9 (amended): calculate_similarity(a, a) is 1.0 for every non-empty token
\* list a.
C9_SelfSimilarityIsOneNonEmpty ==
    (Returned /\ tokens1 = tokens2 /\ tokens1 # <<>>) => similarity = <<1, 1>>

\* a list with a repeated token has been scored against itself
C9_Witness ==
    /\ Returned
    /\ tokens1 = tokens2
    /\ Len(tokens1) = 2 /\ tokens1[1] = tokens1[2]

\* C10: calculate_similarity returns 0.0 whenever at least one of its two
\* token lists is empty, both empty included.
C10_EmptyListScoresZero ==
    (Returned /\ (Len(tokens1) = 0 \/ Len(tokens2) = 0)) => similarity = <<0, 1>>

\* two empty lists have been scored
C10_Witness ==
    /\ Returned
    /\ Len(tokens1) = 0 /\ Len(tokens2) = 0

\* C11 (as claimed): calculate_similarity returns 0.0 when an argument is a
\* bare string instead of a list of tokens; the string is not treated as
\* the sequence of its characters.
C11_BareStringScoresZero ==
    (Returned /\ (kind1 = "str" \/ kind2 = "str")) => similarity = <<0, 1>>

\* C12 (as claimed): matching is a pure function of its input in both
\* strategies: when find_duplicates returns, the caller's block list holds
\* the same blocks in the same order as before the call.
C12_InputListUnchanged ==
    [][(phase = "input" /\ phase' \in {"matchedA", "matchedB"})
          => code_blocks' = code_blocks]_vars

\* C13 (as claimed): malformed blocks never crash the matcher: whatever
\* blocks of the input lack their tokens, their location or their location's
\* file, find_duplicates (either strategy) returns normally and no malformed
\* block is part of a returned match or group.
Malformed(i) ==
    \/ ~has_key(code_blocks[i], "tokens")
    \/ ~has_key(code_blocks[i], "location")
    \/ ~has_key(code_blocks[i].location, "file")
C13_MalformedBlocksNeverCrash ==
    (RanA \/ RanB) =>
        /\ raised = "none"
        /\ \A i \in Positions :
              (Malformed(i) /\ has_key(code_blocks[i], "location")) =>
                  /\ \A k \in 1..Len(duplicates) :
                        LocAt(i) \notin LocsOfMatch(duplicates[k])
                  /\ \A k \in 1..Len(duplicate_groups) :
                        LocAt(i) \notin LocsOfGroup(duplicate_groups[k])

\* ---------------------------------------------- the claims on extraction
Calls == 1..Len(results)
IsParseFile(k) == results[k].op = "parse_file"
\* the call k ran _parse_with_tree_sitter, directly or through parse_file
RanTreeSitter(k) ==
    \/ results[k].op = "_parse_with_tree_sitter"
    \/ /\ IsParseFile(k)
       /\ file.read = "ok"
       /\ language_of(suffix_of(file.path)) \in QueryLanguages
LanguageAt(k) ==
    IF IsParseFile(k) THEN language_of(suffix_of(file.path))
    ELSE results[k].language_name
ReturnedBlocks(k) == results[k].outcome.returned
Raised(k) == is_exception(results[k].outcome)

\* C14 (as claimed): for a file with a supported extension that cannot be
\* read (missing, no permission, not valid UTF-8), parse_file returns an
\* empty block list and raises no exception.
C14_UnreadableFileGivesEmptyList ==
    \A k \in Calls :
        (/\ IsParseFile(k)
         /\ suffix_of(file.path) \in supported_extensions
         /\ file.read # "ok")
            => results[k].outcome = Return(<<>>)

\* C16 (as claimed): _parse_with_tree_sitter returns [] and raises nothing
\* whenever the language has no query definition, the Grammar Provider
\* cannot supply the parser or the language object, the parser raises while
\* parsing, the query fails to compile, or the captures have an unexpected
\* shape.
DegradedCase(k) ==
    \/ LanguageAt(k) \notin QueryLanguages
    \/ provider.get_parser[LanguageAt(k)] # "parser"
    \/ provider.get_language[LanguageAt(k)] # "language"
    \/ file.content.parse = "raises"
    \/ file.content.bad_patterns # {}
    \/ file.content.shape = "other"
C16_GrammarPathDegradesToEmpty ==
    \A k \in Calls :
        (RanTreeSitter(k) /\ DegradedCase(k))
            => results[k].outcome = Return(<<>>)

\* C17 (as claimed): a failure is contained to its structural category: when
\* the query pattern of one category fails and nothing else goes wrong,
\* _parse_with_tree_sitter still returns a block for every captured node of
\* the other categories that has tokens.
C17_FailureContainedToCategory ==
    \A k \in Calls :
        (/\ RanTreeSitter(k)
         /\ LanguageAt(k) \in QueryLanguages
         /\ provider.get_parser[LanguageAt(k)] = "parser"
         /\ provider.get_language[LanguageAt(k)] = "language"
         /\ file.content.parse = "tree"
         /\ file.content.shape # "other")
            => /\ ~Raised(k)
               /\ \A i \in 1..Len(file.content.captures) :
                     (/\ file.content.captures[i].tokens # <<>>
                      /\ file.content.captures[i].type \notin file.content.bad_patterns)
                        => \E j \in 1..Len(ReturnedBlocks(k)) :
                              /\ ReturnedBlocks(k)[j].type = file.content.captures[i].type
                              /\ ReturnedBlocks(k)[j].location.start_line = i

\* C20: extraction is idempotent: two parse_file calls on the same unchanged
\* file with the same CodeParser end the same way and return equal block
\* lists, whether the parser cache held the file's language before the first
\* of them or not.
C20_ParseFileIdempotent ==
    \A i \in Calls : \A j \in Calls :
        (IsParseFile(i) /\ IsParseFile(j) /\ results[i].path = results[j].path)
            => results[i].outcome = results[j].outcome

\* three parse_file calls on a file of a grammar language that gives blocks:
\* the first found the cache empty, the second and the third found it filled
C20_Witness ==
    /\ Len(results) = 3
    /\ \A k \in Calls : IsParseFile(k) /\ ~Raised(k)
    /\ ~results[1].cached /\ results[2].cached /\ results[3].cached
    /\ Len(ReturnedBlocks(1)) = 2
    /\ ReturnedBlocks(3) = ReturnedBlocks(1)

\* ------------------------------------------- the claims on the parser cache
\* the call that was just made asked for the parser of language l
Requested(l) ==
    /\ Len(results') = Len(results) + 1
    /\ \/ /\ results'[Len(results')].op = "_get_parser"
          /\ results'[Len(results')].language_name = l
       \/ /\ results'[Len(results')].op = "parse_file"
          /\ language_of(suffix_of(results'[Len(results')].path)) = l

\* C18 (as claimed): the parser cache is per language and write-once: over any
\* sequence of parse_file and _get_parser calls on one CodeParser, get_parser
\* is called at most once for each language, and each cached language has an
\* instance of its own.
C18_GetParserOncePerLanguage ==
    /\ \A l \in DOMAIN get_parser_calls : get_parser_calls[l] <= 1
    /\ \A l1 \in DOMAIN parsers : \A l2 \in DOMAIN parsers :
          l1 # l2 => parsers[l1] # parsers[l2]

\* C18 (amended): the cache is per language and write-once from the first
\* successful get_parser call on: a request for a language that has an entry
\* does not call get_parser and returns the very instance that is stored, a
\* request for a language without an entry calls get_parser exactly once and
\* stores what it returns (nothing when it raises, so that the next request
\* calls it again), a different language gets an instance of its own, and an
\* entry is never replaced or removed.
C18_CacheWriteOnceAfterSuccess ==
    [][\A l \in LanguageNames :
          /\ l \in DOMAIN parsers =>
                /\ l \in DOMAIN parsers'
                /\ parsers'[l] = parsers[l]
                /\ get_parser_calls'[l] = get_parser_calls[l]
          /\ (l \in DOMAIN parsers /\ Requested(l)
                 /\ results'[Len(results')].op = "_get_parser") =>
                results'[Len(results')].outcome = Return(parsers[l])
          /\ (l \notin DOMAIN parsers /\ Requested(l)) =>
                /\ get_parser_calls'[l] = get_parser_calls[l] + 1
                /\ (l \in DOMAIN parsers') = (provider.get_parser[l] # "raises")
          /\ (l \notin DOMAIN parsers /\ ~Requested(l)) =>
                /\ l \notin DOMAIN parsers'
                /\ get_parser_calls'[l] = get_parser_calls[l]
          /\ \A l2 \in DOMAIN parsers' :
                (l \in DOMAIN parsers' /\ l # l2) => parsers'[l] # parsers'[l2]
      ]_vars

\* the first request cached a parser, the second request for the same
\* language got that instance from the cache, and the third request cached a
\* parser for another language
C18_Witness ==
    /\ Len(results) = 3
    /\ results[1].op = "_get_parser" /\ ~results[1].cached
    /\ results[2].op = "_get_parser" /\ results[2].cached
    /\ results[2].outcome = results[1].outcome
    /\ ~Raised(1)
    /\ Cardinality(DOMAIN parsers) = 2

\* C19 (as claimed): the cache stays write-once per language when callers run
\* parse_file at the same time on one CodeParser for files of the same
\* grammar language: under every interleaving get_parser is called once (the
\* entry is written once) and all callers parse with the same parser instance.
C19_CacheWriteOnceUnderConcurrency ==
    (provider.get_parser[race_language] = "parser") =>
        /\ get_parser_calls[race_language] <= 1
        /\ \A t1 \in Threads : \A t2 \in Threads :
              (pc[t1] = "done" /\ pc[t2] = "done")
                  => returned_parser[t1] = returned_parser[t2]

\* ---------------------------------------------- the claim on parse_code_files
Parsed == phase \in {"parsed_runner", "parsed_main"}
\* the blocks parse_file gives for a file on a new CodeParser; none if it raises
blocks_of_file(f) ==
    LET r == parse_file(EmptyDict, [l \in LanguageNames |-> 0], f, provider)
    IN  IF is_exception(r.outcome) THEN <<>> ELSE r.outcome.returned
RECURSIVE Concatenation(_, _)
Concatenation(file_list, k) ==
    IF k > Len(file_list) THEN <<>>
    ELSE blocks_of_file(file_list[k]) \o Concatenation(file_list, k + 1)

\* C15: parse_code_files is fail-soft over the file list: it returns, a file
\* whose parse_file call raises contributes no block, and the returned list is
\* the concatenation, in file order, of the blocks of the files whose
\* parse_file call succeeded.
C15_ParseCodeFilesFailSoft ==
    Parsed =>
        /\ Len(results) = Len(files)
        /\ code_blocks = Concatenation(files, 1)
        /\ \A k \in 1..Len(files) :
              Raised(k) =>
                 \A j \in 1..Len(code_blocks) :
                    code_blocks[j].location.file # files[k].path
                        \/ \E i \in 1..Len(files) :
                              i # k /\ ~Raised(i) /\ files[i].path = files[k].path

\* the first file's parse_file raised, the second file's succeeded, and the
\* blocks returned are those of the second file
C15_Witness ==
    /\ Parsed
    /\ Len(files) = 2
    /\ Raised(1)
    /\ ~Raised(2)
    /\ code_blocks = ReturnedBlocks(2)
    /\ Len(code_blocks) = 2

\* ------------------------------------------ further claims on the matchers
\* C25 (as claimed): Strategy A reports near-identical blocks as one group:
\* for three blocks of at least min_size tokens whose pairwise Jaccard scores
\* all reach min_similarity and that all pass the size-ratio test,
\* find_duplicates returns exactly one result entry.
AllPairsReach ==
    \A i, j \in Positions :
        i # j => /\ Len(TokensAt(i)) >= min_size
                 /\ JaccardAtLeast(i, j, min_similarity)
                 /\ ~SizeRatioAbove(i, j, min_similarity)
C25_ThreeNearIdenticalOneEntry ==
    (RanA /\ Len(code_blocks) = 3 /\ AllPairsReach) => Len(duplicates) = 1

\* C26: Strategy A never compares pruned pairs: calculate_similarity is not
\* called on a pair of blocks whose sizes differ by more than
\* 1 - min_similarity of the larger size, nor on a pair in which a block has
\* fewer than min_size tokens, and no such pair is emitted as a match.
PrunedPair(tokens_1, tokens_2) ==
    \/ Len(tokens_1) < min_size
    \/ Len(tokens_2) < min_size
    \/ Abs(Len(tokens_1) - Len(tokens_2)) * min_similarity[2]
          > (min_similarity[2] - min_similarity[1])
                * Max(Len(tokens_1), Len(tokens_2))
C26_PrunedPairsNeverCompared ==
    RanA =>
        /\ \A k \in 1..Len(similarity_calls) :
              ~PrunedPair(similarity_calls[k][1].tokens,
                          similarity_calls[k][2].tokens)
        /\ \A i, j \in Positions :
              (i # j /\ PrunedPair(TokensAt(i), TokensAt(j)))
                  => MatchesOf(i, j) = {}

\* Strategy A ran on three blocks of at least min_size tokens: one pair was
\* compared and emitted, the two other pairs were pruned for their sizes
C26_Witness ==
    /\ RanA
    /\ Len(code_blocks) = 3
    /\ Len(similarity_calls) = 1
    /\ Len(duplicates) = 1
    /\ \A i \in Positions : Len(TokensAt(i)) >= min_size
    /\ \E i, j \in Positions : i # j /\ SizeRatioAbove(i, j, min_similarity)

\* C27: Strategy A: in every emitted match block1 is the block that comes
\* first after the stable ascending sort by token count: block1 has at most as
\* many tokens as block2, two blocks of equal size keep their input order, and
\* the match's size is the token count of block1.
\* (A location's start_line is the block's position in the input list.)
BlockAt(loc) == code_blocks[CHOOSE i \in Positions : LocAt(i) = loc]
C27_Block1IsTheSmaller ==
    RanA => \A k \in 1..Len(duplicates) :
        LET first == BlockAt(duplicates[k].block1)
            second == BlockAt(duplicates[k].block2)
        IN  /\ Len(first.tokens) <= Len(second.tokens)
            /\ Len(first.tokens) = Len(second.tokens)
                  => first.location.start_line < second.location.start_line
            /\ duplicates[k].size = Len(first.tokens)

\* a match of two blocks of different sizes whose larger block came first in
\* the input, next to a match of two blocks of equal size
C27_Witness ==
    /\ RanA
    /\ \E k \in 1..Len(duplicates) :
          /\ Len(BlockAt(duplicates[k].block1).tokens)
                < Len(BlockAt(duplicates[k].block2).tokens)
          /\ duplicates[k].block1.start_line > duplicates[k].block2.start_line
    /\ \E k \in 1..Len(duplicates) :
          Len(BlockAt(duplicates[k].block1).tokens)
              = Len(BlockAt(duplicates[k].block2).tokens)

\* C28: Strategy A finds everything Strategy B finds: any two blocks that
\* Strategy B places in the same group are emitted by Strategy A as a match,
\* with similarity 1.0 and size equal to the group's size (min_size >= 1,
\* min_similarity in [0, 1], both matchers on the same blocks).
RanBoth == phase = "matchedAB"
C28_AFindsWhatBFinds ==
    RanBoth => \A g \in 1..Len(duplicate_groups) : \A i, j \in Positions :
        (i # j /\ {LocAt(i), LocAt(j)} \subseteq LocsOfGroup(duplicate_groups[g]))
            => \E k \in MatchesOf(i, j) :
                  /\ duplicates[k].similarity = <<1, 1>>
                  /\ duplicates[k].size = duplicate_groups[g].size

\* both matchers ran with min_similarity 1.0: Strategy B returned a group of
\* three and Strategy A the three matches of its members
C28_Witness ==
    /\ RanBoth
    /\ min_similarity = <<1, 1>>
    /\ Len(duplicate_groups) = 1
    /\ duplicate_groups[1].num_duplicates = 3
    /\ Len(duplicates) = 3

\* C29: Strategy A skips empty blocks and never fails on them: for every block
\* list and every integer min_size, min_size <= 0 included, find_duplicates
\* returns normally without an arithmetic error, and a block with zero tokens
\* appears in no emitted match.
C29_EmptyBlocksSkippedNeverFail ==
    RanA => /\ raised = "none"
            /\ \A i \in Positions : \A k \in 1..Len(duplicates) :
                  TokensAt(i) = <<>> => LocAt(i) \notin LocsOfMatch(duplicates[k])

\* C30: Strategy B's groups partition the duplicated blocks: each input block
\* contributes at most one location to the whole result, no two returned
\* groups have the same token sequence, the number of groups is the number of
\* distinct token sequences of length >= min_size that occur at least twice,
\* and the groups are in the order in which their token sequence first occurs
\* in the input.
GroupSlots ==
    {<<g, n>> \in (1..Len(duplicate_groups)) \X (1..MaxFileBlocks) :
        n <= Len(duplicate_groups[g].locations)}
DuplicatedSequences ==
    {TokensAt(i) : i \in {p \in Positions :
        /\ Len(TokensAt(p)) >= min_size
        /\ \E q \in Positions \ {p} : SameTokens(p, q)}}
FirstOccurrence(tokens) ==
    CHOOSE i \in Positions :
        /\ TokensAt(i) = tokens
        /\ \A j \in Positions : TokensAt(j) = tokens => i <= j
C30_GroupsPartitionDuplicatedBlocks ==
    RanB =>
        /\ \A i \in Positions :
              Cardinality({s \in GroupSlots :
                  duplicate_groups[s[1]].locations[s[2]] = LocAt(i)}) <= 1
        /\ \A g, h \in 1..Len(duplicate_groups) :
              g # h => duplicate_groups[g].tokens # duplicate_groups[h].tokens
        /\ Len(duplicate_groups) = Cardinality(DuplicatedSequences)
        /\ \A g \in 1..Len(duplicate_groups) :
              duplicate_groups[g].tokens \in DuplicatedSequences
        /\ \A g, h \in 1..Len(duplicate_groups) :
              g < h => FirstOccurrence(duplicate_groups[g].tokens)
                          < FirstOccurrence(duplicate_groups[h].tokens)

\* two groups have been returned, and the group returned first was completed
\* last: its second block comes after both blocks of the other group
C30_Witness ==
    /\ RanB
    /\ Len(duplicate_groups) = 2
    /\ duplicate_groups[1].locations[2].start_line
          > duplicate_groups[2].locations[2].start_line

\* ---------------------------------------------------- the claim on the run
Ran == phase \in {"ran_runner", "ran_main"}
CallsOf(step) == {k \in 1..Len(call_log) : call_log[k] = step}
\* the run parsed every file, then called the matcher once and the reporter
\* once, and returned 0
CompletedRun ==
    /\ exit_status = 0
    /\ Cardinality(CallsOf("parse_file")) = Len(files)
    /\ Len(results) = Len(files)
    /\ Cardinality(CallsOf("find_duplicates")) = 1
    /\ Cardinality(CallsOf("generate_report")) = 1
    /\ \A p \in CallsOf("parse_file"), m \in CallsOf("find_duplicates") : p < m
\* the run returned 1 without parsing, matching or reporting
RejectedRun ==
    /\ exit_status = 1
    /\ CallsOf("parse_file") = {}
    /\ CallsOf("find_duplicates") = {}
    /\ CallsOf("generate_report") = {}

\* C24 (as claimed): the exit status of a run (ReplicheckRunner.run,
\* main.main): when the root path does not exist the run returns 1 without
\* parsing, matching or reporting; when the root path exists it returns 0
\* even if parse_file fails for some or all files, with the matcher and the
\* reporter each invoked exactly once and the matcher only after every file
\* was parsed.
C24_ExitStatusOfRun ==
    Ran => IF root_exists THEN CompletedRun ELSE RejectedRun

\* what does hold of the exit status: when the root path does not exist the
\* run returns 1 without parsing, matching or reporting; when the root path
\* exists, replicheck.utils has a find_flake8_unused, output_format is one the
\* Reporter accepts and no analysis or report step raises, it returns 0 even
\* if parse_file fails for some or all files, with the matcher and the
\* reporter each invoked exactly once and the matcher only after every file
\* was parsed; when the root path exists and find_flake8_unused is missing,
\* the Reporter rejects output_format or a step raises, it returns 1.
ExitStatusOfValidRun ==
    Ran => /\ ~root_exists => RejectedRun
           /\ (root_exists /\ output_format \in ReporterFormats
                  /\ failing_step = "none"
                  /\ find_flake8_unused = "defined") => CompletedRun
           /\ (root_exists /\ (output_format \notin ReporterFormats
                                  \/ failing_step # "none"
                                  \/ find_flake8_unused = "missing"))
                 => exit_status = 1

\* as the source stands no run on an existing root returns 0: main.main
\* returns 1, and ReplicheckRunner cannot be imported
NoRunReturnsZero ==
    (find_flake8_unused = "missing" /\ root_exists)
        => /\ phase # "ran_runner"
           /\ phase = "ran_main" => exit_status = 1

\* main.main as the source stands, on an existing root with a format the
\* Reporter accepts and no stub raising: it returned 1 after the matcher,
\* at analyze_unused_imports_vars, without a report
MainReturnedOne ==
    /\ phase = "ran_main"
    /\ find_flake8_unused = "missing"
    /\ root_exists
    /\ output_format \in ReporterFormats
    /\ failing_step = "none"
    /\ exit_status = 1
    /\ call_log[Len(call_log)] = "analyze_unused_imports_vars"
    /\ Cardinality(CallsOf("find_duplicates")) = 1
    /\ CallsOf("generate_report") = {}

\* a run on an existing root with two files, replicheck.utils given a
\* find_flake8_unused: parse_file raised for both, and the run returned 0
\* after one matcher call and one report
CompletedRunReached ==
    /\ Ran
    /\ root_exists
    /\ Len(files) = 2
    /\ CompletedRun
    /\ Raised(1)
    /\ Raised(2)

\* ------------------------------------------------ claims on the tokenizers
TokenizedPython == phase = "tokenized_python"
\* the nodes of a subtree in depth-first (document) order
RECURSIVE DepthFirst(_)
DepthFirst(todo) ==
    IF todo = <<>> THEN <<>>
    ELSE <<Head(todo)>> \o DepthFirst(Head(todo).children \o Tail(todo))
\* the identifiers (Name nodes) and literals (Constant nodes) of a subtree as
\* the tokenizer emits each of them, in depth-first order
DocumentOrder(node) == tokens_of_nodes(DepthFirst(<<node>>))

\* C21 (as claimed): on the Python path a block's tokens are the declared
\* name followed by every identifier and literal of the subtree in
\* depth-first (document) order, for every syntax tree, nested statements
\* and definitions included.
C21_PythonTokensInDocumentOrder ==
    TokenizedPython =>
        emitted = <<syntax_tree.name>> \o DocumentOrder(syntax_tree)

\* the literals and the identifiers of the subtree, by their spelling
NodesOf(node) == Range(DepthFirst(<<node>>))
LiteralSpellings(node) ==
    {n.text : n \in {m \in NodesOf(node) : m.type = "Constant"}}
IdentifierSpellings(node) ==
    {n.id : n \in {m \in NodesOf(node) : m.type = "Name"}}

\* C22 (as claimed): literal tokens are the literal's source text, not its
\* value: every literal of the subtree appears among the tokens as it is
\* spelled, two differently spelled literals never yield the same token, and
\* a literal never yields the same token as an identifier.
C22_LiteralTokensAreSourceText ==
    TokenizedPython =>
        /\ LiteralSpellings(syntax_tree) \subseteq Range(Tail(emitted))
        /\ Cardinality(Range(Tail(emitted)))
              = Cardinality(LiteralSpellings(syntax_tree)
                               \cup IdentifierSpellings(syntax_tree))

TokenizedTreeSitter == phase = "tokenized_tree_sitter"
\* the source text a node spans: the characters of the text whose bytes lie
\* in [start_byte, end_byte) of the encoded text
SpannedText(n) ==
    LET offset(k) == byte_length(SubSeq(source_text, 1, k - 1))
        inside(k) == offset(k) >= n.start_byte /\ offset(k) < n.end_byte
        at == {k \in 1..Len(source_text) : inside(k)}
    IN  text_of([k \in 1..Cardinality(at) |->
            source_text[CHOOSE j \in at : Cardinality({i \in at : i < j}) = k - 1]])
\* one token per identifier-like, string or number node of the nodes, in
\* depth-first pre-order: the text the node spans
RECURSIVE SpannedTokens(_)
SpannedTokens(todo) ==
    IF todo = <<>> THEN <<>>
    ELSE (IF Head(todo).type \in identifier_types \cup literal_types
          THEN <<SpannedText(Head(todo))>> ELSE <<>>)
         \o SpannedTokens(Head(todo).children \o Tail(todo))

\* C23 (as claimed): _tokenize_tree_sitter_node emits, in depth-first
\* pre-order, one token per identifier-like node (identifier,
\* property_identifier, shorthand_property_identifier, type_identifier) and
\* per string or number node, and nothing for any other node; each token is
\* the source text the node spans, for every content, multi-byte UTF-8
\* included.
C23_TreeSitterTokensAreSpannedText ==
    TokenizedTreeSitter => emitted = SpannedTokens(<<syntax_tree>>)

====
